---- MODULE Spec2Model ----
(***************************************************************************)
(* Model of the sunlight sensor pipeline (kden/sunlight_sensor_gcp):       *)
(*   - the "latest reading" cache upsert, update_latest_reading            *)
(*     (functions/pubsub_to_cassandra, functions/sensor_data_processor);   *)
(*   - the incremental BigQuery -> Firestore export engine,                *)
(*     export_sensors_to_firestore (functions/bq_to_firestore_sensors);    *)
(*   - the Pub/Sub consumer write_to_cassandra, which writes the raw table *)
(*     and the cache (functions/pubsub_to_cassandra);                      *)
(*   - the daily and the hourly weather export, export_daily_weather and   *)
(*     export_hourly_weather (functions/bq_to_firestore_daily_weather);    *)
(*   - the HTTP ingest boundary, proxy_to_pubsub                           *)
(*     (functions/rest_sensor_api_to_pubsub);                              *)
(*   - the Cassandra connection, get_cassandra_session                     *)
(*     (functions/pubsub_to_cassandra);                                    *)
(*   - the downsample/merge engine behind downsampled_sunlight_data        *)
(*     (terraform/test/test_smoothing_query.py);                           *)
(*   - the 15-minute export export_to_firestore (functions/bq_to_firebase);*)
(*   - the weather entry point export_weather_to_firestore                 *)
(*     (functions/bq_to_firestore_daily_weather);                          *)
(*   - the combined consumer process_sensor_data with its status phase     *)
(*     process_status_messages (functions/sensor_data_processor);          *)
(*   - the status monitor process_status_message with its pending groups   *)
(*     (functions/sensor_status_monitor);                                  *)
(*   - the SSE generator generate_sse_stream                               *)
(*     (functions/cassandra_sse_stream).                                   *)
(* SpecCache is the specification of the cache and SpecEngine that of the  *)
(* engine; SpecRecovery is the engine with invocations one at a time and   *)
(* the history of reruns and crashes, SpecOverlap two overlapping          *)
(* invocations of a first deployment.  SpecIngest is the consumer,         *)
(* SpecDaily the daily export and SpecExports either of the two exports;   *)
(* SpecProxy, SpecConn, SpecDown, SpecLegacy and SpecHourly are the        *)
(* specifications of the next five; SpecWeather, SpecNotify, SpecMonitor   *)
(* and SpecStream are those of the last four.                              *)
(***************************************************************************)
EXTENDS Integers, Sequences, FiniteSets, TLC

VARIABLES
    \* ---- latest-reading cache (Cassandra table sensor_latest_reading)
    cache,          \* sensor_id -> row of the table
    now,            \* wall clock that stamps ingestion_time, one tick per call
    call,           \* history: sensor and carried fields of the last call
    \* ---- export engine (BigQuery source, Firestore destination)
    source,         \* rows of downsampled_sunlight_data
    clock,          \* last_updated stamp of the latest upstream merge
    dest,           \* collection sunlight_readings: doc id -> value
    metadata,       \* document bq_export_metadata/last_run
    pc,             \* per invocation: position in export_sensors_to_firestore
    lastProcessed,  \* per invocation: local last_processed_ts (a string)
    rows,           \* per invocation: local rows (query result)
    pending,        \* per invocation: set operations of batch, not committed
    hist,           \* history used to state the properties of runs
    \* ---- Pub/Sub consumer write_to_cassandra (table raw_sensor_data)
    raw,            \* (sensor_id, timestamp) -> row of the table
    delivery,       \* history: the last message handled and what was done
    \* ---- daily weather export (BigQuery source, Firestore destination)
    daily,          \* source table, collection, metadata document, result
    \* ---- HTTP ingest boundary proxy_to_pubsub
    proxy,          \* topic, and history: the last request and its response
    \* ---- Cassandra connection get_cassandra_session
    conn,           \* the global session, and each thread's position and result
    \* ---- downsample/merge engine (MERGE into downsampled_sunlight_data)
    down,           \* raw rows not yet processed, the table, the last run
    \* ---- 15-minute export export_to_firestore (function bq_to_firebase)
    legacy,         \* source table, collection, metadata document, last run
    \* ---- hourly weather export export_hourly_weather
    hourly,         \* source table, collection, metadata document, last run
    \* ---- HTTP entry point export_weather_to_firestore
    weather,        \* history: the last request, what ran and the response
    \* ---- status notifications of process_sensor_data
    notify,         \* history: the last message and the notifications sent
    \* ---- status monitor process_status_message
    monitor,        \* pending_status_messages, the clock, the last call
    \* ---- SSE endpoint generate_sse_stream
    stream          \* the table, the generator's locals, the events yielded

cacheVars == <<cache, now, call>>
engineVars == <<source, clock, dest, metadata, pc, lastProcessed, rows, pending, hist>>
ingestVars == <<raw, delivery>>
dailyVars == <<daily>>
edgeVars == <<weather, notify, monitor, stream>>
auxVars == <<proxy, conn, down, legacy, hourly, edgeVars>>
vars == <<cache, now, call, source, clock, dest, metadata, pc, lastProcessed, rows,
          pending, hist, raw, delivery, daily, proxy, conn, down, legacy, hourly,
          weather, notify, monitor, stream>>

\* a key that is absent from a dict, or whose value is None or empty (falsy)
None == "none"

(***************************************************************************)
(* Bounds of the model.                                                    *)
(***************************************************************************)
MaxCalls == 3          \* cache updates per behaviour (and the last clock tick)
MaxEventTime == 3      \* event timestamps are 1..MaxEventTime
MaxMerges == 2         \* upstream merges into the source table
TicksPerSecond == 2    \* sub-second resolution of a timestamp (1000000 in the code)
RowLimit == 2          \* the query's LIMIT (500 in the code), scaled to the source
MaxDay == 2            \* dates of the daily weather table are 1..MaxDay
DailyLimit == 2        \* the daily query's LIMIT (500 in the code), scaled

(***************************************************************************)
(* Latest-reading cache.                                                   *)
(***************************************************************************)
TrackedFields == {"light_intensity", "status", "battery_voltage", "battery_percent",
                  "wifi_dbm", "chip_temp_c", "chip_temp_f", "commit_sha",
                  "commit_timestamp"}

\* The fields the bounded inputs carry; the other tracked fields stay absent.
InputFields == {"light_intensity", "battery_percent"}

SensorIds == {"x"}
\* What a reading holds for a field: no key, the value None, or a value.
Absent == [kind |-> "absent", v |-> 0]
Null == [kind |-> "null", v |-> 0]

EmptyRow == [exists |-> FALSE, last_seen |-> <<>>, timestamp |-> <<>>,
             sensor_set_id |-> None, fld |-> [f \in TrackedFields |-> ([val |-> <<>>, ts |-> <<>>])]]

\* datetime.fromisoformat(timestamp.replace('Z', '+00:00')): both spellings of
\* the UTC offset give the same instant.
ParseEventTimestamp(str) ==
    LET normalised == [str EXCEPT !.offset = IF @ = "Z" THEN "+00:00" ELSE @]
    IN  normalised.instant

\* 'f' in reading and reading['f'] is not None
Carries(reading, f) == reading.fields[f] \notin {Absent, Null}

\* MergedRow as a whole-row write: a column the reading does not carry is
\* written as null (what the INSERT into the raw table does).
MergedRowWholeRow(row, reading, timestamp, ingestion_time) ==
    [exists |-> TRUE,
     last_seen |-> <<ingestion_time>>,
     timestamp |-> <<timestamp>>,
     sensor_set_id |-> reading.sensor_set_id,
     fld |-> [f \in TrackedFields |->
                IF Carries(reading, f)
                THEN [val |-> <<reading.fields[f].v>>, ts |-> <<timestamp>>]
                ELSE ([val |-> <<>>, ts |-> <<>>])]]

\* MergedRow stamping the fields with the ingestion time instead of the event
\* timestamp
MergedRowIngestionStamped(row, reading, timestamp, ingestion_time) ==
    [exists |-> TRUE,
     last_seen |-> <<ingestion_time>>,
     timestamp |-> <<timestamp>>,
     sensor_set_id |-> IF reading.sensor_set_id # None
                       THEN reading.sensor_set_id ELSE row.sensor_set_id,
     fld |-> [f \in TrackedFields |->
                IF Carries(reading, f)
                THEN [val |-> <<reading.fields[f].v>>, ts |-> <<ingestion_time>>]
                ELSE row.fld[f]]]

\* MergedRow as a conditional write: a field is written only where the row
\* holds nothing, or something older than the reading.
MergedRowNewerOnly(row, reading, timestamp, ingestion_time) ==
    [exists |-> TRUE,
     last_seen |-> <<ingestion_time>>,
     timestamp |-> <<timestamp>>,
     sensor_set_id |-> IF reading.sensor_set_id # None
                       THEN reading.sensor_set_id ELSE row.sensor_set_id,
     fld |-> [f \in TrackedFields |->
                IF /\ Carries(reading, f)
                   /\ (row.fld[f].ts = <<>> \/ row.fld[f].ts[1] < timestamp)
                THEN [val |-> <<reading.fields[f].v>>, ts |-> <<timestamp>>]
                ELSE row.fld[f]]]

\* The row after the UPDATE statement built from the reading: the SET clauses
\* name last_seen, timestamp, sensor_set_id when truthy, and value and
\* timestamp of each carried field; Cassandra leaves every other column alone.
MergedRow(row, reading, timestamp, ingestion_time) ==
    [exists |-> TRUE,
     last_seen |-> <<ingestion_time>>,
     timestamp |-> <<timestamp>>,
     sensor_set_id |-> IF reading.sensor_set_id # None THEN reading.sensor_set_id
                       ELSE row.sensor_set_id,
     fld |-> [f \in TrackedFields |->
                IF Carries(reading, f)
                THEN [val |-> <<reading.fields[f].v>>, ts |-> <<timestamp>>]
                ELSE row.fld[f]]]

\* What the bounded inputs hold for a field: battery_percent every case,
\* light_intensity a value or no key.
InputValues(f) ==
    IF f = "battery_percent" THEN ({[kind |-> "value", v |-> n] : n \in {0, 5}}) \cup {Absent, Null}
    ELSE {Absent, [kind |-> "value", v |-> 5]}

Readings ==
    [sensor_id : SensorIds \cup {None},
     sensor_set_id : ({"set-1"}) \cup {None},
     fields : {[f \in TrackedFields |-> IF f \in InputFields THEN g[f] ELSE Absent] :
                 g \in {h \in [InputFields -> ({[kind |-> "value", v |-> n] : n \in {0, 5}}) \cup {Absent, Null}] :
                          \A f \in InputFields : h[f] \in InputValues(f)}}]

\* the tracked fields a reading carries
Carried(reading) == {f \in TrackedFields : Carries(reading, f)}

\* History: the reading is the one the last call executed (same sensor, same
\* sensor_set_id, same fields and values, same event timestamp).
SameAsLast(reading, timestamp) ==
    /\ call.executed
    /\ call.sensor_id = reading.sensor_id
    /\ call.sensor_set_id = reading.sensor_set_id
    /\ call.carried = Carried(reading)
    /\ call.timestamp = <<timestamp>>
    /\ \A f \in Carried(reading) : call.values[f] = <<reading.fields[f].v>>

\* update_latest_reading(session, reading, timestamp, ingestion_time); executes
\* is FALSE when session.prepare/execute raises (the except clause only prints).
\* The function has no raise and no return value: every call returns None.
\* call keeps, of an executed statement, the values and timestamp it bound.
UpdateLatestReading(reading, str, executes) ==
    /\ now < MaxCalls
    /\ LET timestamp == ParseEventTimestamp(str)
           ingestion_time == now + 1
           attempted == reading.sensor_id # None
       IN  /\ now' = ingestion_time
           /\ call' = [sensor_id |-> reading.sensor_id,
                       sensor_set_id |-> reading.sensor_set_id,
                       carried |-> Carried(reading),
                       attempted |-> attempted,
                       executed |-> executes /\ attempted,
                       timestamp |-> IF executes /\ attempted
                                     THEN <<timestamp>> ELSE <<>>,
                       values |-> [f \in TrackedFields |->
                                     IF executes /\ attempted /\ Carries(reading, f)
                                     THEN <<reading.fields[f].v>> ELSE <<>>],
                       repeat |-> /\ executes /\ attempted
                                  /\ SameAsLast(reading, timestamp),
                       outcome |-> "returned"]
           /\ IF ~attempted \/ ~executes
              THEN cache' = cache
              ELSE cache' = [cache EXCEPT ![reading.sensor_id] =
                                MergedRow(@, reading, timestamp, ingestion_time)]
    /\ UNCHANGED <<engineVars, ingestVars, dailyVars, auxVars>>

\* A call that returns before the statement, or whose statement raises, makes
\* no use of the timestamp: one timestamp stands for all of them there.
NextCache ==
    \/ \E reading \in {r \in Readings : r.sensor_id # None},
          str \in ([instant : 1..MaxEventTime, offset : ({"Z", "+00:00"})]) :
          UpdateLatestReading(reading, str, TRUE)
    \/ \E reading \in Readings, executes \in BOOLEAN :
          /\ reading.sensor_id = None \/ ~executes
          /\ UpdateLatestReading(reading, [instant |-> 1, offset |-> "Z"], executes)

(***************************************************************************)
(* Export engine: export_sensors_to_firestore.                             *)
(***************************************************************************)
Runs == {"r1", "r2"}   \* invocations of the function that may overlap

\* Keys (sensor_id, observation_minute) of the source table the model uses:
\* sensor A has two minutes in the bucket [0, 900) and one in [900, 1800).
SourceKeys ==
    {[sensor_id |-> "A", sensor_set_id |-> "set-1", observation_minute |-> 0],
     [sensor_id |-> "A", sensor_set_id |-> "set-1", observation_minute |-> 60],
     [sensor_id |-> "A", sensor_set_id |-> "set-1", observation_minute |-> 900],
     [sensor_id |-> "B", sensor_set_id |-> "set-2", observation_minute |-> 0]}

MergeValue(n) == (<<90, 115, 105, 100>>)[((n - 1) % Len((<<90, 115, 105, 100>>))) + 1]

\* The sets of keys one upstream merge may write: one row, or all of them.
MergeBatches == {{k} : k \in SourceKeys} \cup {SourceKeys}

KeyOf(row) == [sensor_id |-> row.sensor_id, sensor_set_id |-> row.sensor_set_id,
               observation_minute |-> row.observation_minute]

SetMax(S) == CHOOSE x \in S : \A y \in S : y <= x

RECURSIVE SetSum(_)
SetSum(S) == IF S = {} THEN 0
             ELSE LET x == CHOOSE y \in S : TRUE
                  IN  x.smoothed_light_intensity + SetSum(S \ {x})

\* A timestamp string "1970-01-01T00:00:SS[.ffffff]Z": whole seconds and the
\* fraction, which isoformat() prints only when it is not zero.
EpochString == [seconds |-> 0, fraction |-> <<>>]

\* IsoFormatZ with the fraction of a second dropped (timespec='seconds')
IsoFormatSeconds(t) == [seconds |-> t \div TicksPerSecond, fraction |-> <<>>]

\* max_new_last_updated_ts.isoformat().replace('+00:00', 'Z')
IsoFormatZ(t) ==
    [seconds |-> t \div TicksPerSecond,
     fraction |-> IF t % TicksPerSecond = 0 THEN <<>> ELSE <<t % TicksPerSecond>>]

\* TIMESTAMP("{last_processed_ts}") in the query
ParseTimestamp(str) ==
    str.seconds * TicksPerSecond + (IF str.fraction = <<>> THEN 0 ELSE str.fraction[1])

\* TIMESTAMP_SECONDS(900 * DIV(UNIX_SECONDS(observation_minute), 900))
Bucket(observation_minute) == 900 * (observation_minute \div 900)

GroupKey(row) == [observation_minute |-> Bucket(row.observation_minute),
                  sensor_id |-> row.sensor_id, sensor_set_id |-> row.sensor_set_id]

\* WHERE last_updated > TIMESTAMP(watermark)
NewRows(src, watermark) == {row \in src : row.last_updated > watermark}

\* GROUP BY 1, 2, 3 with AVG(smoothed_light_intensity) (kept as sum and count)
\* and MAX(last_updated)
Groups(src, watermark) ==
    LET new == NewRows(src, watermark) IN
    {LET members == {row \in new : GroupKey(row) = k} IN
       [observation_minute |-> k.observation_minute, sensor_id |-> k.sensor_id,
        sensor_set_id |-> k.sensor_set_id,
        sum |-> SetSum(members), count |-> Cardinality(members),
        max_last_updated |-> SetMax({row.last_updated : row \in members})]
     : k \in {GroupKey(row) : row \in new}}

Min(a, b) == IF a < b THEN a ELSE b

\* ORDER BY max_last_updated LIMIT n: every set of the first n groups in some
\* ascending order; groups that tie at the cut are returned in either way.
QueryResults(src, watermark) ==
    LET all == Groups(src, watermark)
        n == Min(RowLimit, Cardinality(all))
    IN  {T \in SUBSET all :
           /\ Cardinality(T) = n
           /\ \A g \in T, h \in all \ T : g.max_last_updated <= h.max_last_updated}

\* round(x) of Python 3 for x = sum / count >= 0: to nearest, ties to even
Round(sum, count) ==
    LET q == sum \div count
        r == sum % count
    IN  IF 2 * r < count THEN q
        ELSE IF 2 * r > count THEN q + 1
        ELSE IF q % 2 = 0 THEN q ELSE q + 1

\* f"{row.sensor_id}_{row.observation_minute.isoformat()}"
DocId(g) == <<g.sensor_id, g.observation_minute>>

DocIds == {<<k.sensor_id, Bucket(k.observation_minute)>> : k \in SourceKeys}

\* the document batch.set writes for a row
DocData(g) == [sensor_id |-> g.sensor_id, observation_minute |-> g.observation_minute,
               smoothed_light_intensity |-> Round(g.sum, g.count),
               sensor_set_id |-> g.sensor_set_id]

\* the source rows a set of returned groups was computed from
Members(src, watermark, T) ==
    {row \in NewRows(src, watermark) : \E g \in T : GroupKey(row) = [observation_minute |-> g.observation_minute, sensor_id |-> g.sensor_id, sensor_set_id |-> g.sensor_set_id]}

\* the document bq_export_metadata/last_run before its first write
NoMetadata == [exists |-> FALSE, last_processed_timestamp_utc |-> EpochString,
               rows_processed_in_last_run |-> 0]

\* metadata_doc.to_dict().get("last_processed_timestamp_utc", default)
StoredWatermark(meta) ==
    IF meta.exists THEN meta.last_processed_timestamp_utc ELSE EpochString

Active(r) == pc[r] # "idle"

EmptyDest == [d \in DocIds |-> <<>>]

\* the collection after the set operations of a batch have all been applied
Applied(d, batch) ==
    [id \in DocIds |->
       IF \E g \in batch : DocId(g) = id
       THEN <<DocData(CHOOSE g \in batch : DocId(g) = id)>>
       ELSE d[id]]

(***************************************************************************)
(* History of the runs (hist).  It records, and never steers, the engine:  *)
(*   sel[r]        the source rows behind the groups run r read            *)
(*   incorporated  the source rows behind every completed commit           *)
(*   started[r]    r has been invoked (kept when once)                     *)
(*   returned      what the step that led here returned: nothing (the run  *)
(*                 goes on), "SUCCESS", an exception, or the invocation    *)
(*                 was killed                                              *)
(*   before        <<the source before the latest upstream merge>> (kept   *)
(*                 when once)                                              *)
(* and, kept only when track (SpecRecovery, where runs do not overlap),    *)
(*   solo[r]       no other invocation and no upstream merge has           *)
(*                 overlapped run r so far                                 *)
(*   base[r]       <<dest as run r's query saw it>> while solo[r]          *)
(*   prev          the watermark the last completed commit of a solo run   *)
(*                 started from, valid while source and destination are    *)
(*                 as that run saw and left them                           *)
(*   rerun[r]      r is solo and read prev's watermark: a second run from  *)
(*                 the same watermark on identical data                    *)
(*   crash         watermark and base of the last solo run that ended      *)
(*                 after its query without writing the watermark, valid    *)
(*                 while the source is the same and no other run wrote     *)
(*   recov[r]      r is solo and read crash's watermark: the run after     *)
(*                 the crash                                               *)
(* track and once are fixed by the initial state.                          *)
(***************************************************************************)
NoCrash == [valid |-> FALSE, wm |-> EpochString, base |-> EmptyDest]
NoRun == [r \in Runs |-> FALSE]
NoReturn == "none"
Raised == "raised"

InitHist(track, once) ==
    [track |-> track, once |-> once,
     sel |-> [r \in Runs |-> {}], incorporated |-> {}, started |-> NoRun,
     before |-> <<>>, returned |-> NoReturn,
     solo |-> NoRun, base |-> [r \in Runs |-> <<>>], prev |-> ([valid |-> FALSE, wm |-> EpochString]),
     rerun |-> NoRun, crash |-> NoCrash, recov |-> NoRun]

\* the history a step leaves: h, without what this behaviour does not keep
Kept(h) ==
    IF h.track THEN h
    ELSE [InitHist(FALSE, h.once) EXCEPT
            !.sel = h.sel, !.incorporated = h.incorporated,
            !.started = IF h.once THEN h.started ELSE NoRun,
            !.before = IF h.once THEN h.before ELSE <<>>,
            !.returned = h.returned]

\* run r is over: what the history held about it is dropped
Forget(h, r) ==
    [h EXCEPT !.sel[r] = {}, !.solo[r] = FALSE, !.base[r] = <<>>,
              !.rerun[r] = FALSE, !.recov[r] = FALSE]

\* the crash record left by run r when it ends without the watermark write
CrashRecord(r) ==
    IF hist.base[r] # <<>>
    THEN [valid |-> TRUE, wm |-> lastProcessed[r], base |-> hist.base[r][1]]
    ELSE hist.crash

\* The body of the upstream MERGE: the rows with these keys are inserted or
\* replaced, all stamped with the statement's timestamp.
Merged(src, keys, stamp) ==
    {row \in src : KeyOf(row) \notin keys} \cup
    {[sensor_id |-> k.sensor_id, sensor_set_id |-> k.sensor_set_id,
      observation_minute |-> k.observation_minute,
      smoothed_light_intensity |-> MergeValue(stamp),
      last_updated |-> stamp] : k \in keys}

\* The upstream MERGE into downsampled_sunlight_data: it upserts a set of rows
\* in one statement, all stamped with the same, new last_updated.
UpstreamMerge(keys) ==
    /\ clock < MaxMerges
    /\ clock' = clock + 1
    /\ source' = Merged(source, keys, clock + 1)
    /\ hist' = Kept([hist EXCEPT !.incorporated = @ \cap source',
                                 !.before = IF hist.once THEN <<source>> ELSE <<>>,
                                 !.returned = NoReturn,
                                 !.solo = NoRun, !.base = [r \in Runs |-> <<>>],
                                 !.prev = ([valid |-> FALSE, wm |-> EpochString]), !.rerun = NoRun,
                                 !.crash = NoCrash, !.recov = NoRun])
    /\ UNCHANGED <<dest, metadata, pc, lastProcessed, rows, pending>>
    /\ UNCHANGED <<cacheVars, ingestVars, dailyVars, auxVars>>

\* 1. Get the last processed timestamp from Firestore
ReadWatermark(r) ==
    /\ pc[r] = "idle"
    /\ lastProcessed' = [lastProcessed EXCEPT ![r] = StoredWatermark(metadata)]
    /\ pc' = [pc EXCEPT ![r] = "query"]
    /\ hist' = Kept([hist EXCEPT
                  !.started[r] = TRUE, !.returned = NoReturn,
                  !.solo = [q \in Runs |-> q = r /\ \A o \in Runs \ {r} : ~Active(o)],
                  !.base = [q \in Runs |-> <<>>],
                  !.rerun = NoRun, !.recov = NoRun])
    /\ UNCHANGED <<source, clock, dest, metadata, rows, pending>>
    /\ UNCHANGED <<cacheVars, ingestVars, dailyVars, auxVars>>

\* QueryNewData recording every run: with no rows it stores the watermark
\* document again, with a row count of 0
QueryNewDataRecording(r) ==
    /\ pc[r] = "query"
    /\ \E result \in QueryResults(source, ParseTimestamp(lastProcessed[r])) :
         IF result = {}
         THEN /\ pc' = [pc EXCEPT ![r] = "idle"]
              /\ lastProcessed' = [lastProcessed EXCEPT ![r] = EpochString]
              /\ hist' = [Forget(hist, r) EXCEPT !.returned = "SUCCESS"]
              /\ metadata' = [exists |-> TRUE,
                              last_processed_timestamp_utc |-> lastProcessed[r],
                              rows_processed_in_last_run |-> 0]
              /\ UNCHANGED <<rows, pending>>
         ELSE /\ pc' = [pc EXCEPT ![r] = "commit"]
              /\ rows' = [rows EXCEPT ![r] = result]
              /\ pending' = [pending EXCEPT ![r] = result]
              /\ hist' = Kept([hist EXCEPT !.returned = NoReturn,
                   !.sel[r] = Members(source, ParseTimestamp(lastProcessed[r]), result)])
              /\ UNCHANGED <<lastProcessed, metadata>>
    /\ UNCHANGED <<source, clock, dest>>
    /\ UNCHANGED <<cacheVars, ingestVars, dailyVars, auxVars>>

\* 2. Query BigQuery; no rows: return "SUCCESS"; else build the batch
QueryNewData(r) ==
    /\ pc[r] = "query"
    /\ \E result \in QueryResults(source, ParseTimestamp(lastProcessed[r])) :
         IF result = {}
         THEN /\ pc' = [pc EXCEPT ![r] = "idle"]
              /\ lastProcessed' = [lastProcessed EXCEPT ![r] = EpochString]
              /\ hist' = [Forget(hist, r) EXCEPT !.returned = "SUCCESS"]
              /\ UNCHANGED <<rows, pending>>
         ELSE /\ pc' = [pc EXCEPT ![r] = "commit"]
              /\ rows' = [rows EXCEPT ![r] = result]
              /\ pending' = [pending EXCEPT ![r] = result]
              /\ hist' = Kept([hist EXCEPT
                   !.returned = NoReturn,
                   !.sel[r] = Members(source, ParseTimestamp(lastProcessed[r]), result),
                   !.base[r] = IF hist.solo[r] THEN <<dest>> ELSE <<>>,
                   !.rerun[r] = /\ hist.solo[r]
                                /\ hist.prev.valid
                                /\ hist.prev.wm = lastProcessed[r],
                   !.recov[r] = /\ hist.solo[r]
                                /\ hist.crash.valid
                                /\ hist.crash.wm = lastProcessed[r]])
              /\ UNCHANGED lastProcessed
    /\ UNCHANGED <<source, clock, dest, metadata>>
    /\ UNCHANGED <<cacheVars, ingestVars, dailyVars, auxVars>>

\* The invocation ends after it built its batch, returning or raising value:
\* its locals are gone.
Exit(r, crashRecord, value) ==
    /\ pc' = [pc EXCEPT ![r] = "idle"]
    /\ lastProcessed' = [lastProcessed EXCEPT ![r] = EpochString]
    /\ rows' = [rows EXCEPT ![r] = {}]
    /\ pending' = [pending EXCEPT ![r] = {}]
    /\ hist' = Kept([Forget(hist, r) EXCEPT !.crash = crashRecord,
                                            !.returned = value])

\* bigquery_client.query raises: the exception leaves the function
QueryFails(r) ==
    /\ pc[r] = "query"
    /\ pc' = [pc EXCEPT ![r] = "idle"]
    /\ lastProcessed' = [lastProcessed EXCEPT ![r] = EpochString]
    /\ hist' = [Forget(hist, r) EXCEPT !.returned = Raised]
    /\ UNCHANGED <<source, clock, dest, metadata, rows, pending>>
    /\ UNCHANGED <<cacheVars, ingestVars, dailyVars, auxVars>>

\* 3. batch.commit(): the set operations of the batch are applied together
\* (a Firestore write batch is atomic).
CommitBatch(r) ==
    /\ pc[r] = "commit"
    /\ dest' = Applied(dest, pending[r])
    /\ pending' = [pending EXCEPT ![r] = {}]
    /\ pc' = [pc EXCEPT ![r] = "advance"]
    /\ hist' = Kept([hist EXCEPT
         !.returned = NoReturn,
         !.incorporated = @ \cup hist.sel[r],
         !.prev = [valid |-> hist.base[r] # <<>>, wm |-> lastProcessed[r]],
         !.crash = IF dest' # dest /\ ~hist.recov[r] THEN NoCrash ELSE @])
    /\ UNCHANGED <<source, clock, metadata, lastProcessed, rows>>
    /\ UNCHANGED <<cacheVars, ingestVars, dailyVars, auxVars>>

\* CommitFails with the error swallowed: the function goes on to step 4
CommitFailsSwallowed(r) ==
    /\ pc[r] = "commit"
    /\ metadata' = [exists |-> TRUE,
                    last_processed_timestamp_utc |->
                        IsoFormatZ(SetMax({g.max_last_updated : g \in rows[r]})),
                    rows_processed_in_last_run |-> Cardinality(rows[r])]
    /\ Exit(r, hist.crash, "SUCCESS")
    /\ UNCHANGED <<source, clock, dest>>
    /\ UNCHANGED <<cacheVars, ingestVars, dailyVars, auxVars>>

\* batch.commit() raises: nothing of the batch is applied and the exception
\* leaves the function
CommitFails(r) ==
    /\ pc[r] = "commit"
    /\ Exit(r, CrashRecord(r), Raised)
    /\ UNCHANGED <<source, clock, dest, metadata>>
    /\ UNCHANGED <<cacheVars, ingestVars, dailyVars, auxVars>>

\* the invocation is killed between the commit and the watermark write
Crash(r) ==
    /\ pc[r] = "advance"
    /\ Exit(r, CrashRecord(r), ("killed"))
    /\ UNCHANGED <<source, clock, dest, metadata>>
    /\ UNCHANGED <<cacheVars, ingestVars, dailyVars, auxVars>>

\* the value metadata_ref.set stores for the rows of a run
NewMetadata(result) ==
    [exists |-> TRUE,
     last_processed_timestamp_utc |->
         IsoFormatZ(SetMax({g.max_last_updated : g \in result})),
     rows_processed_in_last_run |-> Cardinality(result)]

\* 4. Update the last processed timestamp in Firestore; return "SUCCESS"
AdvanceWatermark(r) ==
    /\ pc[r] = "advance"
    /\ metadata' = NewMetadata(rows[r])
    /\ Exit(r, NoCrash, "SUCCESS")
    /\ UNCHANGED <<source, clock, dest>>
    /\ UNCHANGED <<cacheVars, ingestVars, dailyVars, auxVars>>

NextEngine ==
    \/ \E keys \in MergeBatches : UpstreamMerge(keys)
    \/ \E r \in Runs : ReadWatermark(r)
    \/ \E r \in Runs : QueryNewData(r)
    \/ \E r \in Runs : QueryFails(r)
    \/ \E r \in Runs : CommitBatch(r)
    \/ \E r \in Runs : CommitFails(r)
    \/ \E r \in Runs : Crash(r)
    \/ \E r \in Runs : AdvanceWatermark(r)

(***************************************************************************)
(* Daily weather export: export_daily_weather.  A run is one step; fault   *)
(* says where, if anywhere, it ends early.                                 *)
(***************************************************************************)
DailySets == {"set-1", "set-2"}

\* record_date.strftime('%Y-%m-%d') and DATE("...") of the query
DateString(d) == [ymd |-> d]
ParseDate(str) == str.ymd

\* ORDER BY date, sensor_set_id (NULL sorts first)
SetRank(sensor_set_id) ==
    CASE sensor_set_id = None -> 0
      [] sensor_set_id = "set-1" -> 1
      [] sensor_set_id = "set-2" -> 2

DailyBefore(a, b) ==
    \/ a.date < b.date
    \/ a.date = b.date /\ SetRank(a.sensor_set_id) < SetRank(b.sensor_set_id)

\* WHERE date > DATE(last) ORDER BY date, sensor_set_id LIMIT 500
DailyQuery(src, last) ==
    LET new == {row \in src : row.date > ParseDate(last)} IN
    {row \in new : Cardinality({o \in new : DailyBefore(o, row)}) < DailyLimit}

DailyDocId(row) == <<row.sensor_set_id, row.date>>

NoDaily == [source |-> {}, dest |-> {}, meta |-> ([exists |-> FALSE, last_processed_date |-> (DateString(0)), rows_processed_in_last_run |-> 0]),
            returned |-> NoReturn]

\* last_processed_date as the run reads it
DailyWatermark(meta) ==
    IF meta.exists THEN meta.last_processed_date ELSE (DateString(0))

\* the historical weather loader adds a row to the source table
DailyLoad(row) ==
    /\ row \notin daily.source
    /\ daily' = [daily EXCEPT !.source = @ \cup {row}, !.returned = NoReturn]
    /\ UNCHANGED <<cacheVars, engineVars, ingestVars, auxVars>>

\* export_daily_weather(firestore_client, bigquery_client, project_id): the
\* tables and the result a run leaves, d being what it found
DailyAfter(d, fault) ==
    LET result == DailyQuery(d.source, DailyWatermark(d.meta))
        written == {row \in result : row.sensor_set_id # None}
        docs == {DailyDocId(row) : row \in written}
    IN  IF fault = "query" THEN [d EXCEPT !.returned = Raised]
        ELSE IF result = {}
        THEN [d EXCEPT !.returned = "SUCCESS: No new data."]
        ELSE IF fault = "commit" THEN [d EXCEPT !.returned = Raised]
        ELSE IF fault = "killed"
        THEN [d EXCEPT !.dest = @ \cup docs, !.returned = ("killed")]
        ELSE [d EXCEPT
                !.dest = @ \cup docs,
                !.meta = IF written = {} THEN @
                         ELSE [exists |-> TRUE,
                               last_processed_date |->
                                   DateString(SetMax({row.date : row \in written})),
                               rows_processed_in_last_run |-> Cardinality(result)],
                !.returned = "SUCCESS: Processed"]

\* a run of export_daily_weather on its own
ExportDailyWeather(fault) ==
    /\ daily' = DailyAfter(daily, fault)
    /\ UNCHANGED <<cacheVars, engineVars, ingestVars, auxVars>>

NextDaily ==
    \/ \E row \in ([date : 1..MaxDay, sensor_set_id : DailySets \cup {None}]) : DailyLoad(row)
    \/ \E fault \in ({"none", "query", "commit", "killed"}) : ExportDailyWeather(fault)

(***************************************************************************)
(* Pub/Sub consumer: write_to_cassandra.                                   *)
(***************************************************************************)
MaxItems == 3          \* items of all the messages delivered in a behaviour

\* json values of the timestamp key: no key (or null), a string fromisoformat
\* rejects, or a string it parses
NoTimestamp == [instant |-> 0, offset |-> "none"]
Malformed == [instant |-> 0, offset |-> "not-a-date"]

\* An item of the payload that is no dict (a number, a string, null).
NonDict == [is_dict |-> FALSE, sensor_id |-> None, sensor_set_id |-> None,
            timestamp |-> NoTimestamp, fields |-> [f \in TrackedFields |-> Absent]]

OnlyLight == [f \in TrackedFields |->
                IF f = "light_intensity" THEN [kind |-> "value", v |-> 5] ELSE Absent]

Item(sensor_id, timestamp, fields) ==
    [is_dict |-> TRUE, sensor_id |-> sensor_id, sensor_set_id |-> "set-1",
     timestamp |-> timestamp, fields |-> fields]

\* The items the bounded payloads are made of: one of each kind the loop tells
\* apart, and three readings it accepts (two of them with the same key).
IngestItems ==
    {NonDict,
     Item(None, [instant |-> 1, offset |-> "Z"], OnlyLight),
     Item("x", NoTimestamp, OnlyLight),
     Item("x", Malformed, OnlyLight),
     Item("x", [instant |-> 1, offset |-> "Z"], OnlyLight),
     Item("x", [instant |-> 1, offset |-> "+00:00"], ([f \in TrackedFields |-> IF f = "battery_percent" THEN [kind |-> "value", v |-> 0] ELSE Absent])),
     Item("x", [instant |-> 2, offset |-> "Z"], OnlyLight)}

\* A json document is a list of items (is_list), or a single value that is
\* no list.
\* AsList iterating over the value itself: the keys of a dict, none a dict
AsListOfKeys(payload) ==
    IF payload.is_list THEN payload.items ELSE <<NonDict, NonDict>>

\* if not isinstance(payload, list): payload = [payload]
AsList(payload) == IF payload.is_list THEN payload.items ELSE <<payload.value>>

\* A Pub/Sub event: whether cloud_event.data["message"]["data"] exists, is a
\* string, is padded base64, decodes as UTF-8 and parses as json.
WellFormed(payload) ==
    [has_data |-> TRUE, is_text |-> TRUE, padded |-> TRUE, utf8 |-> TRUE,
     json |-> TRUE, payload |-> payload]

EmptyPayload == [is_list |-> TRUE, items |-> <<>>]

\* cloud_event.data["message"]["data"], base64.b64decode(...).decode("utf-8"),
\* json.loads(...): the exception of the first step that fails, or none.
DecodeError(message) ==
    IF ~message.has_data THEN "KeyError"
    ELSE IF ~message.is_text THEN "TypeError"
    ELSE IF ~message.padded THEN "binascii.Error"
    ELSE IF ~message.utf8 THEN "UnicodeDecodeError"
    ELSE IF ~message.json THEN "JSONDecodeError"
    ELSE None

EmptyRaw == [k \in (SensorIds \X (1..MaxEventTime)) |-> ([exists |-> FALSE, sensor_set_id |-> None, ingestion_time |-> <<>>, fld |-> [f \in TrackedFields |-> <<>>]])]

\* The row of the INSERT: every column is bound, reading.get(f) is None for a
\* field the reading does not carry.
RawRow(reading, ingestion_time) ==
    [exists |-> TRUE,
     sensor_set_id |-> reading.sensor_set_id,
     ingestion_time |-> <<ingestion_time>>,
     fld |-> [f \in TrackedFields |->
                IF Carries(reading, f) THEN <<reading.fields[f].v>> ELSE <<>>]]

\* What the loop did with an item, and which statements it sent.
Outcome(result, rawWrite, cacheWrite) ==
    [result |-> result, raw |-> rawWrite, cache |-> cacheWrite]

\* if not sensor_id or not timestamp
MissingRequired(reading) ==
    reading.sensor_id = None \/ reading.timestamp = NoTimestamp

\* the items for which the loop reaches session.execute
Accepted(item) ==
    item.is_dict /\ ~MissingRequired(item) /\ item.timestamp # Malformed

\* One iteration of `for reading in payload`; st is the state of the stores,
\* the clock and the counters, fault the statement that raises, if any.
ProcessReading(st, reading, fault) ==
    IF ~reading.is_dict
    THEN [st EXCEPT !.log = Append(@, Outcome("skipped", "none", "none"))]
    ELSE IF MissingRequired(reading)
    THEN [st EXCEPT !.log = Append(@, Outcome("skipped", "none", "none"))]
    ELSE IF reading.timestamp = Malformed
    THEN [st EXCEPT !.error_count = @ + 1,
                    !.log = Append(@, Outcome("error", "none", "none"))]
    ELSE LET timestamp == ParseEventTimestamp(reading.timestamp)
             ingestion_time == st.now + 1
         IN  IF fault = "raw"
             THEN [st EXCEPT !.now = ingestion_time,
                             !.error_count = @ + 1,
                             !.log = Append(@, Outcome("error", "failed", "none"))]
             ELSE [st EXCEPT
                     !.now = ingestion_time,
                     !.raw[<<reading.sensor_id, timestamp>>] =
                         RawRow(reading, ingestion_time),
                     !.cache[reading.sensor_id] =
                         IF fault = "cache" THEN @
                         ELSE MergedRow(@, reading, timestamp, ingestion_time),
                     !.success_count = @ + 1,
                     !.log = Append(@, Outcome("success", "done",
                                 IF fault = "cache" THEN "failed" ELSE "done"))]

\* ProcessReadings rejecting the batch from the first item that lacks a
\* required field
RECURSIVE ProcessReadingsRejecting(_, _, _, _)
ProcessReadingsRejecting(st, payload, faults, i) ==
    IF i > Len(payload) THEN st
    ELSE IF payload[i].is_dict /\ MissingRequired(payload[i]) THEN st
    ELSE ProcessReadingsRejecting(ProcessReading(st, payload[i], faults[i]),
                                  payload, faults, i + 1)

\* ProcessReadings as one transaction that ends at the first failed write
RECURSIVE ProcessReadingsAborting(_, _, _, _)
ProcessReadingsAborting(st, payload, faults, i) ==
    IF i > Len(payload) THEN st
    ELSE IF Accepted(payload[i]) /\ faults[i] # "none"
    THEN ProcessReading(st, payload[i], faults[i])
    ELSE ProcessReadingsAborting(ProcessReading(st, payload[i], faults[i]),
                                 payload, faults, i + 1)

\* for reading in payload: ...
RECURSIVE ProcessReadings(_, _, _, _)
ProcessReadings(st, payload, faults, i) ==
    IF i > Len(payload) THEN st
    ELSE ProcessReadings(ProcessReading(st, payload[i], faults[i]),
                         payload, faults, i + 1)

\* write_to_cassandra(cloud_event), one delivery of a message.  delivery keeps
\* the message, how far the handler got (stage), how it ended, the stores
\* and the clock as it found them (before) and what the loop did with each item.
WriteToCassandra(message, sessionFault, faults) ==
    LET payload == AsList(message.payload)
        ends(stage, result) ==
            [handled |-> delivery.handled + Len(payload), message |-> message,
             result |-> result, stage |-> stage,
             before |-> [raw |-> raw, cache |-> cache, now |-> now],
             success_count |-> 0,
             error_count |-> 0, log |-> <<>>]
    IN  /\ delivery.handled + Len(payload) <= MaxItems
        /\ IF DecodeError(message) # None
           THEN /\ delivery' = ends("decode",
                                    IF DecodeError(message) \in ({"KeyError", "TypeError", "JSONDecodeError"})
                                    THEN "returned" ELSE Raised)
                /\ UNCHANGED <<raw, cache, now>>
           ELSE IF sessionFault = "connect"
           THEN /\ delivery' = ends("connect", "returned")
                /\ UNCHANGED <<raw, cache, now>>
           ELSE IF sessionFault = "prepare"
           THEN /\ delivery' = ends("prepare", Raised)
                /\ UNCHANGED <<raw, cache, now>>
           ELSE \E st \in {ProcessReadings(
                                [raw |-> raw, cache |-> cache, now |-> now,
                                 success_count |-> 0, error_count |-> 0,
                                 log |-> <<>>], payload, faults, 1)} :
                  /\ delivery' = [handled |-> delivery.handled + Len(payload),
                                  message |-> message, result |-> "returned",
                                  stage |-> "loop",
                                  before |-> [raw |-> raw, cache |-> cache,
                                              now |-> now],
                                  success_count |-> st.success_count,
                                  error_count |-> st.error_count,
                                  log |-> st.log]
                  /\ raw' = st.raw
                  /\ cache' = st.cache
                  /\ now' = st.now
        /\ UNCHANGED <<call, engineVars, dailyVars, auxVars>>

\* an item together with the statement that raises while it is processed;
\* only an item the loop accepts has statements that can raise
FaultyItems ==
    {p \in IngestItems \X ({"none", "raw", "cache"}) : ~Accepted(p[1]) => p[2] = "none"}

NoFaults(payload) == [i \in 1..Len(AsList(payload)) |-> "none"]

NextIngest ==
    \/ \E message \in ({[WellFormed(EmptyPayload) EXCEPT !.has_data = FALSE], [WellFormed(EmptyPayload) EXCEPT !.is_text = FALSE], [WellFormed(EmptyPayload) EXCEPT !.padded = FALSE], [WellFormed(EmptyPayload) EXCEPT !.utf8 = FALSE], [WellFormed(EmptyPayload) EXCEPT !.json = FALSE]}) :
          WriteToCassandra(message, "none", NoFaults(message.payload))
    \/ \E n \in 0..(MaxItems - delivery.handled) :
          \E deliver \in [1..n -> FaultyItems] :
             WriteToCassandra(
                 WellFormed([is_list |-> TRUE,
                             items |-> [i \in 1..n |-> deliver[i][1]]]),
                 "none", [i \in 1..n |-> deliver[i][2]])
    \/ \E deliver \in FaultyItems :
          /\ delivery.handled < MaxItems
          /\ WriteToCassandra(
                 WellFormed([is_list |-> FALSE, value |-> deliver[1]]),
                 "none", <<deliver[2]>>)
    \/ \E n \in 0..(MaxItems - delivery.handled) :
          \E items \in [1..n -> IngestItems],
             sessionFault \in ({"none", "connect", "prepare"}) \ {"none"} :
             WriteToCassandra(WellFormed([is_list |-> TRUE, items |-> items]),
                              sessionFault, [i \in 1..n |-> "none"])

(***************************************************************************)
(* HTTP ingest boundary: proxy_to_pubsub.                                  *)
(***************************************************************************)
MaxPublished == 1      \* messages the topic holds at most in a behaviour

\* os.environ: which of the three variables are set
EnvVars == {"GCP_PROJECT", "TOPIC_ID", "SECRET_BEARER_TOKEN"}

\* The Authorization header: none, or a string, kept as its scheme and token.
NoHeader == [scheme |-> None, token |-> None]

\* f"Bearer {secret_bearer_token}", the secret of the deployment being "secret"
ExpectedToken == [scheme |-> "Bearer", token |-> "secret"]

AReading == Item("x", [instant |-> 1, offset |-> "Z"], OnlyLight)

\* The requests: which variables the environment sets, the Authorization
\* header, the content type, and what request.get_json(silent=True) gives for
\* the body: None (no json, or the json null), a scalar, a list or an object.
Requests ==
    [env : {EnvVars, EnvVars \ {"TOPIC_ID"}, EnvVars \ {"SECRET_BEARER_TOKEN"}},
     auth : {NoHeader,
             [scheme |-> "Bearer", token |-> "secret"],
             [scheme |-> "Bearer", token |-> "guess"],
             [scheme |-> "", token |-> "secret"]},
     content_type : {"application/json", "text/plain"},
     body : {[kind |-> "none"],
             [kind |-> "scalar"],
             [kind |-> "list", items |-> <<>>],
             [kind |-> "list", items |-> <<AReading>>],
             [kind |-> "list", items |-> <<NonDict, AReading>>],
             [kind |-> "dict", object |-> AReading]}]

\* if isinstance(data, dict): data = [data]
AsBatch(body) ==
    IF body.kind = "dict" THEN [is_list |-> TRUE, items |-> <<body.object>>]
    ELSE [is_list |-> TRUE, items |-> body.items]

\* Rejection comparing the token and not the whole header
RejectionTokenOnly(request) ==
    IF request.env # EnvVars THEN 500
    ELSE IF request.auth = NoHeader \/ request.auth.token # ExpectedToken.token
    THEN 401
    ELSE IF request.content_type # "application/json" THEN 400
    ELSE IF request.body.kind = "none" THEN 400
    ELSE IF request.body.kind \notin {"dict", "list"} THEN 400
    ELSE IF Len(AsBatch(request.body).items) = 0 THEN 400
    ELSE 0

\* Rejection checking the content type before the token
RejectionContentFirst(request) ==
    IF request.env # EnvVars THEN 500
    ELSE IF request.content_type # "application/json" THEN 400
    ELSE IF request.auth = NoHeader \/ request.auth # ExpectedToken THEN 401
    ELSE IF request.body.kind = "none" THEN 400
    ELSE IF request.body.kind \notin {"dict", "list"} THEN 400
    ELSE IF Len(AsBatch(request.body).items) = 0 THEN 400
    ELSE 0

\* The status of the checks that precede the publish, 0 when all of them pass.
Rejection(request) ==
    IF request.env # EnvVars THEN 500
    ELSE IF request.auth = NoHeader \/ request.auth # ExpectedToken THEN 401
    ELSE IF request.content_type # "application/json" THEN 400
    ELSE IF request.body.kind = "none" THEN 400
    ELSE IF request.body.kind \notin {"dict", "list"} THEN 400
    ELSE IF Len(AsBatch(request.body).items) = 0 THEN 400
    ELSE 0

\* proxy_to_pubsub(request).  publisher.publish(...) and
\* future.result(timeout=10): the message is published; the publish raises;
\* or the wait times out, and the message the client still holds is published
\* later or never.
ProxyToPubsub(request, outcome) ==
    /\ Len(proxy.topic) < MaxPublished
    /\ IF Rejection(request) # 0
       THEN proxy' = [proxy EXCEPT !.request = request,
                                   !.status = Rejection(request),
                                   !.outcome = "none"]
       ELSE proxy' = [topic |-> IF outcome \in {"published", "timeout_published"}
                                THEN Append(proxy.topic,
                                            WellFormed(AsBatch(request.body)))
                                ELSE proxy.topic,
                      request |-> request,
                      status |-> IF outcome = "published" THEN 200 ELSE 500,
                      outcome |-> outcome]
    /\ UNCHANGED <<cacheVars, engineVars, ingestVars, dailyVars, edgeVars, conn, down, legacy, hourly>>

NextProxy ==
    \E request \in Requests,
       outcome \in {"published", "raised", "timeout_published", "timeout_lost"} :
        /\ Rejection(request) # 0 => outcome = "published"
        /\ ProxyToPubsub(request, outcome)

(***************************************************************************)
(* Cassandra connection: get_cassandra_session.                            *)
(***************************************************************************)
\* invocations that run in one process, each in a thread of its own
Threads == {"t1", "t2", "t3"}

\* the global cassandra_session: None, or the n-th session constructed
NoSession == 0

\* if cassandra_session is not None: return cassandra_session
CheckSession(t) ==
    /\ conn.pc[t] = "idle"
    /\ IF conn.session # NoSession
       THEN conn' = [conn EXCEPT !.result[t] =
                                 [outcome |-> "returned", session |-> conn.session]]
       ELSE conn' = [conn EXCEPT !.pc[t] = "constructing", !.result[t] =
                                 [outcome |-> NoReturn, session |-> NoSession]]
    /\ UNCHANGED <<cacheVars, engineVars, ingestVars, dailyVars, edgeVars, proxy, down, legacy, hourly>>

\* environment check, download of the bundle, Cluster(...).connect(): any of
\* them raises and leaves the global as it is, or the session is constructed
\* and assigned to the global
ConstructSession(t, succeeds) ==
    /\ conn.pc[t] = "constructing"
    /\ IF succeeds
       THEN conn' = [conn EXCEPT !.constructed = @ + 1,
                                 !.session = conn.constructed + 1,
                                 !.pc[t] = "returning"]
       ELSE conn' = [conn EXCEPT !.pc[t] = "idle", !.result[t] =
                                 [outcome |-> Raised, session |-> NoSession]]
    /\ UNCHANGED <<cacheVars, engineVars, ingestVars, dailyVars, edgeVars, proxy, down, legacy, hourly>>

\* return cassandra_session
ReturnSession(t) ==
    /\ conn.pc[t] = "returning"
    /\ conn' = [conn EXCEPT !.pc[t] = "idle", !.result[t] =
                                 [outcome |-> "returned", session |-> conn.session]]
    /\ UNCHANGED <<cacheVars, engineVars, ingestVars, dailyVars, edgeVars, proxy, down, legacy, hourly>>

NextConn ==
    \E t \in Threads :
        \/ CheckSession(t)
        \/ \E succeeds \in BOOLEAN : ConstructSession(t, succeeds)
        \/ ReturnSession(t)

(***************************************************************************)
(* Downsample/merge engine: the MERGE into downsampled_sunlight_data, as   *)
(* the specification describes it and test_smoothing_query.py exercises    *)
(* it.  A run is one statement.                                            *)
(***************************************************************************)
MaxRawRows == 3        \* raw rows loaded in a behaviour
MaxTick == 5           \* raw timestamps are 0..MaxTick
TicksPerMinute == 2    \* resolution of a raw timestamp within its bucket

\* rows of the raw table that sensor-A (999, or 100) and sensor-B (50) send
RawRows ==
    {r \in [timestamp : 0..MaxTick, sensor_id : {"sensor-A", "sensor-B"},
            light_intensity : {50, 100, 999}, sensor_set_id : {"set-1", "set-2"}] :
        /\ r.sensor_set_id = "set-1" <=> r.sensor_id = "sensor-A"
        /\ r.light_intensity = 50 <=> r.sensor_id = "sensor-B"}

\* the bucket (observation_minute) of a raw timestamp
Minute(timestamp) == (timestamp \div TicksPerMinute) * TicksPerMinute

\* Gaps filling a sensor up to the last bucket of the window
GapsUnbounded(window, sensor_id) ==
    LET observed == {Minute(r.timestamp) : r \in {x \in window : x.sensor_id = sensor_id}}
    IN  {g \in {Minute(t) : t \in 0..MaxTick} \ observed :
           /\ \E o \in observed : o < g
           /\ \E r \in window : Minute(r.timestamp) >= g}

\* The buckets the bounded LOCF pass fills for a sensor: those without a raw
\* row between two buckets of the window in which the sensor has rows.
Gaps(window, sensor_id) ==
    LET observed == {Minute(r.timestamp) : r \in {x \in window : x.sensor_id = sensor_id}}
    IN  {g \in {Minute(t) : t \in 0..MaxTick} \ observed :
           /\ \E o \in observed : o < g
           /\ \E o \in observed : o > g}

\* The rows a run computes from the raw rows of its window: the mean (kept as
\* sum and count) of each bucket that has rows and, with gap filling, for each
\* gap the value of the most recent earlier bucket that has rows.
Downsampled(window, gapFill) ==
    LET In(s, m) == {r \in window : r.sensor_id = s /\ Minute(r.timestamp) = m}
        Row(s, m, from, filled) ==
            [observation_minute |-> m, sensor_id |-> s,
             sensor_set_id |-> (CHOOSE r \in window : r.sensor_id = s).sensor_set_id,
             smoothed_light_intensity |->
                 [sum |-> SetSum({[smoothed_light_intensity |-> r.light_intensity,
                                   of |-> r] : r \in In(s, from)}),
                  count |-> Cardinality(In(s, from))],
             is_filled |-> filled]
    IN  {Row(r.sensor_id, Minute(r.timestamp), Minute(r.timestamp), FALSE) :
            r \in window}
        \cup
        IF gapFill
        THEN UNION {{Row(s, g, SetMax({Minute(r.timestamp) :
                                  r \in {x \in window : /\ x.sensor_id = s
                                                        /\ Minute(x.timestamp) < g}}),
                         TRUE) : g \in Gaps(window, s)} :
                    s \in {r.sensor_id : r \in window}}
        ELSE {}

\* MergeRows as a plain INSERT
MergeRowsInserting(table, using, stamp) ==
    table \cup
    {[observation_minute |-> u.observation_minute, sensor_id |-> u.sensor_id,
      sensor_set_id |-> u.sensor_set_id,
      smoothed_light_intensity |-> u.smoothed_light_intensity,
      last_updated |-> stamp] : u \in using}

\* MERGE ... ON sensor_id and observation_minute: a row with data replaces the
\* row of its key or is inserted; a carried-forward row is inserted only where
\* the table has no row.
MergeRows(table, using, stamp) ==
    LET Same(a, b) == /\ a.sensor_id = b.sensor_id
                      /\ a.observation_minute = b.observation_minute
    IN  {t \in table : ~\E u \in using : ~u.is_filled /\ Same(t, u)}
        \cup
        {[observation_minute |-> u.observation_minute, sensor_id |-> u.sensor_id,
          sensor_set_id |-> u.sensor_set_id,
          smoothed_light_intensity |-> u.smoothed_light_intensity,
          last_updated |-> stamp] :
            u \in {x \in using : ~x.is_filled \/ ~\E t \in table : Same(t, x)}}

\* pending: the raw rows newer than the watermark; last: history of the last
\* run (its flag, its window and the table before it)
NoDown == [pending |-> {}, table |-> {}, loaded |-> 0, runs |-> 0,
           last |-> [ran |-> FALSE, gap_fill |-> FALSE, window |-> {}, before |-> {}]]

\* a reading reaches the raw table
LoadRaw(row) ==
    /\ down.loaded < MaxRawRows
    /\ row \notin down.pending
    /\ down' = [down EXCEPT !.pending = @ \cup {row}, !.loaded = @ + 1,
                            !.last = NoDown.last]
    /\ UNCHANGED <<cacheVars, engineVars, ingestVars, dailyVars, edgeVars, proxy, conn,
                   legacy, hourly>>

\* one run of the engine: the rows newer than the watermark are aggregated,
\* merged, and the watermark moves past them
Downsample(gapFill) ==
    /\ down.runs < MaxMerges
    /\ down' = [down EXCEPT
                  !.table = MergeRows(@, Downsampled(down.pending, gapFill),
                                      down.runs + 1),
                  !.pending = {},
                  !.runs = @ + 1,
                  !.last = [ran |-> TRUE, gap_fill |-> gapFill,
                            window |-> down.pending, before |-> down.table]]
    /\ UNCHANGED <<cacheVars, engineVars, ingestVars, dailyVars, edgeVars, proxy, conn,
                   legacy, hourly>>

NextDown ==
    \/ \E row \in RawRows : LoadRaw(row)
    \/ \E gapFill \in BOOLEAN : Downsample(gapFill)

(***************************************************************************)
(* 15-minute export of the function bq_to_firebase: export_to_firestore.   *)
(* A run is one step; fault says where, if anywhere, it ends early.        *)
(***************************************************************************)
\* WHERE observation_minute > TIMESTAMP(last) GROUP BY 1, 2, 3 with
\* AVG(smoothed_light_intensity) (kept as sum and count) ORDER BY
\* observation_minute LIMIT 500: every set of the first groups in some
\* ascending order.
LegacyQuery(src, last) ==
    LET new == {row \in src :
                  row.observation_minute * TicksPerSecond > ParseTimestamp(last)}
        Key(row) == <<Bucket(row.observation_minute), row.sensor_id, row.sensor_set>>
        all == {[observation_minute |-> k[1], sensor_id |-> k[2], sensor_set |-> k[3],
                 sum |-> SetSum({row \in new : Key(row) = k}),
                 count |-> Cardinality({row \in new : Key(row) = k})] :
                  k \in {Key(row) : row \in new}}
    IN  {T \in SUBSET all :
           /\ Cardinality(T) = Min(RowLimit, Cardinality(all))
           /\ \A g \in T, h \in all \ T : g.observation_minute <= h.observation_minute}

\* prev: history, the collection and the metadata document before the last
\* run when that run started from where a successful run had ended; found:
\* the number of rows the last run's query returned
NoLegacy == [source |-> {}, dest |-> {}, meta |-> NoMetadata, returned |-> NoReturn,
             found |-> 0,
             prev |-> [valid |-> FALSE, dest |-> {}, meta |-> NoMetadata]]

\* the upstream merge adds a row to downsampled_sunlight_data
LegacyLoad(row) ==
    /\ \A o \in legacy.source :
          o.sensor_id = row.sensor_id => o.observation_minute # row.observation_minute
    /\ legacy' = [legacy EXCEPT !.source = @ \cup {row}, !.returned = NoReturn,
                                !.found = 0, !.prev = NoLegacy.prev]
    /\ UNCHANGED <<cacheVars, engineVars, ingestVars, dailyVars, edgeVars, proxy, conn,
                   down, hourly>>

\* export_to_firestore(event, context)
ExportToFirestore(result, fault) ==
    /\ result \in LegacyQuery(legacy.source, StoredWatermark(legacy.meta))
    /\ LET docs == {[id |-> DocId(g),
                     data |-> [sensor_id |-> g.sensor_id,
                               observation_minute |-> g.observation_minute,
                               smoothed_light_intensity |-> Round(g.sum, g.count),
                               sensor_set |-> g.sensor_set]] : g \in result}
           written == {d \in legacy.dest : \A n \in docs : n.id # d.id} \cup docs
           start == [legacy EXCEPT
                       !.found = Cardinality(result),
                       !.prev = IF legacy.returned = "SUCCESS"
                                THEN [valid |-> TRUE, dest |-> legacy.dest,
                                      meta |-> legacy.meta]
                                ELSE NoLegacy.prev]
       IN  legacy' =
             IF fault = "query" THEN [start EXCEPT !.found = 0, !.returned = Raised]
             ELSE IF result = {} THEN [start EXCEPT !.returned = "SUCCESS"]
             ELSE IF fault = "commit" THEN [start EXCEPT !.returned = Raised]
             ELSE IF fault = "killed"
             THEN [start EXCEPT !.dest = written, !.returned = ("killed")]
             ELSE [start EXCEPT
                     !.dest = written,
                     !.meta = [exists |-> TRUE,
                               last_processed_timestamp_utc |->
                                   IsoFormatZ(TicksPerSecond *
                                       SetMax({g.observation_minute : g \in result})),
                               rows_processed_in_last_run |-> Cardinality(result)],
                     !.returned = "SUCCESS"]
    /\ UNCHANGED <<cacheVars, engineVars, ingestVars, dailyVars, edgeVars, proxy, conn,
                   down, hourly>>

\* The rows the model loads: sensor A at 00:15:00, 00:16:00 and 00:30:00,
\* sensor B at 00:15:00.
NextLegacy ==
    \/ \E row \in {r \in [observation_minute : {900, 960, 1800}, sensor_id : {"A", "B"},
                          sensor_set : {"set-1"},
                          smoothed_light_intensity : {90, 115}] :
                      r.sensor_id = "B" =>
                          r.observation_minute = 900 /\ r.smoothed_light_intensity = 90} :
          LegacyLoad(row)
    \/ \E fault \in ({"none", "query", "commit", "killed"}) :
          \E result \in LegacyQuery(legacy.source, StoredWatermark(legacy.meta)) :
              ExportToFirestore(result, fault)

(***************************************************************************)
(* Hourly weather export: export_hourly_weather.  A run is one step; fault *)
(* says where, if anywhere, it ends early.                                 *)
(***************************************************************************)
MaxHour == 3           \* times of the hourly weather table are hours 1..MaxHour
HourlyLimit == 3       \* the hourly query's LIMIT (200 in the code), scaled
HourlyBatch == 2       \* documents of an intermediate batch (100), scaled

\* WHERE time > TIMESTAMP(last) ORDER BY time, sensor_set_id LIMIT 200: the
\* rows in the order of the result
HourlyQuery(src, last) ==
    LET new == {row \in src : row.time > ParseTimestamp(last)}
        Rank(row) == Cardinality({o \in new :
                        \/ o.time < row.time
                        \/ /\ o.time = row.time
                           /\ SetRank(o.sensor_set_id) < SetRank(row.sensor_set_id)})
    IN  [i \in 1..Min(HourlyLimit, Cardinality(new)) |->
            CHOOSE row \in new : Rank(row) = i - 1]

\* HourlyBatches committing all the documents in one batch
HourlyBatchesWhole(written) ==
    IF written = <<>> THEN <<>> ELSE <<{written[j] : j \in 1..Len(written)}>>

\* The batches the loop commits: one whenever batch_count reaches 100, and
\* the rest after the loop.
HourlyBatches(written) ==
    [i \in 1..((Len(written) + HourlyBatch - 1) \div HourlyBatch) |->
        {written[j] : j \in ((i - 1) * HourlyBatch + 1)..Min(i * HourlyBatch, Len(written))}]

\* last: history of the last run: the rows its query returned, the batches it
\* committed, the commit that failed (0: none) and the metadata before it
NoHourly ==
    [source |-> {}, dest |-> {}, returned |-> NoReturn,
     meta |-> [exists |-> FALSE, last_processed_timestamp |-> EpochString,
               rows_processed_in_last_run |-> 0],
     last |-> [selected |-> <<>>, commits |-> <<>>, failed |-> 0,
               before |-> [exists |-> FALSE, last_processed_timestamp |-> EpochString,
                           rows_processed_in_last_run |-> 0]]]

\* the weather loader adds a row to hourly_historical_weather
HourlyLoad(row) ==
    /\ row \notin hourly.source
    /\ hourly' = [hourly EXCEPT !.source = @ \cup {row}, !.returned = NoReturn,
                                !.last = NoHourly.last]
    /\ UNCHANGED <<cacheVars, engineVars, ingestVars, dailyVars, edgeVars, proxy, conn,
                   down, legacy>>

\* export_hourly_weather(firestore_client, bigquery_client, project_id): the
\* tables and the result a run leaves, h being what it found; with the fault
\* "commit", the k-th commit of the run raises.  The set is empty when the
\* run has no k-th commit.
HourlyAfter(h, fault, k) ==
    LET result == HourlyQuery(h.source, h.meta.last_processed_timestamp)
        written == SelectSeq(result, LAMBDA row : row.sensor_set_id # None)
        batches == HourlyBatches(written)
        done == IF fault = "commit" THEN k - 1 ELSE Len(batches)
        Docs(n) == UNION {{<<row.sensor_set_id, row.time>> : row \in batches[i]} :
                          i \in 1..n}
        start == [h EXCEPT !.last = [selected |-> <<>>, commits |-> <<>>,
                                     failed |-> 0, before |-> h.meta]]
    IN  IF ~(fault = "commit" <=> k \in 1..Len(batches)) \/ (fault # "commit" /\ k # 0)
        THEN {}
        ELSE IF fault = "query" THEN {[start EXCEPT !.returned = Raised]}
        ELSE IF result = <<>>
        THEN {[start EXCEPT !.returned = "SUCCESS: No new data."]}
        ELSE {[start EXCEPT
                 !.dest = @ \cup Docs(done),
                 !.meta = IF fault = "commit" \/ written = <<>> THEN @
                          ELSE [exists |-> TRUE,
                                last_processed_timestamp |->
                                    [seconds |->
                                        SetMax({written[j].time : j \in 1..Len(written)})
                                        \div TicksPerSecond,
                                     fraction |-> <<>>],
                                rows_processed_in_last_run |-> Len(result)],
                 !.returned = IF fault = "commit" THEN Raised
                              ELSE "SUCCESS: Processed",
                 !.last = [selected |-> result,
                           commits |-> SubSeq(batches, 1, done),
                           failed |-> IF fault = "commit" THEN k ELSE 0,
                           before |-> h.meta]]}

\* a run of export_hourly_weather on its own
ExportHourlyWeather(fault, k) ==
    /\ \E h \in HourlyAfter(hourly, fault, k) : hourly' = h
    /\ UNCHANGED <<cacheVars, engineVars, ingestVars, dailyVars, edgeVars, proxy, conn,
                   down, legacy>>

\* the rows of the table are on the hour; one of them may lack its
\* sensor_set_id
NextHourly ==
    \/ \E row \in {r \in [time : {h * 3600 * TicksPerSecond : h \in 1..MaxHour},
                           sensor_set_id : DailySets \cup {None}] :
                      r.sensor_set_id = None => r.time = 3600 * TicksPerSecond} :
          HourlyLoad(row)
    \/ \E fault \in {"none", "query", "commit"}, k \in 0..HourlyLimit :
          ExportHourlyWeather(fault, k)


(***************************************************************************)
(* HTTP entry point of the weather exports: export_weather_to_firestore.   *)
(* A request is one step: it reads export_type from the body, runs the     *)
(* exports it selects and answers.                                         *)
(***************************************************************************)
\* export_type after the parse: "both" unless the body's object says
\* otherwise; only JSONDecodeError and UnicodeDecodeError are caught, the
\* AttributeError of message_json.get on a value that is no dict is not
ExportType(body) ==
    CASE body.kind \in {"empty", "not-utf8", "not-json"} -> "both"
      [] body.kind = "not-object" -> Raised
      [] body.kind = "object" ->
            IF body.export_type = None THEN "both" ELSE body.export_type

\* "SUCCESS" in result
HasSuccess(result) == result \in {"SUCCESS: No new data.", "SUCCESS: Processed"}

\* export_weather_to_firestore(request).  dfault and hfault say where, if
\* anywhere, the daily and the hourly export raise; an export that is not
\* run has no fault.
ExportWeatherToFirestore(body, dfault, hfault, k) ==
    LET export_type == ExportType(body)
        runDaily == export_type \in {"both", "daily"}
        runHourly == export_type \in {"both", "hourly"}
        d == IF runDaily THEN DailyAfter(daily, dfault) ELSE daily
    IN  /\ ~runDaily => dfault = "none"
        /\ ~runHourly => hfault = "none" /\ k = 0
        /\ \E h \in (IF runHourly THEN HourlyAfter(hourly, hfault, k) ELSE {hourly}) :
              LET success_count ==
                      (IF runDaily /\ HasSuccess(d.returned) THEN 1 ELSE 0)
                      + (IF runHourly /\ HasSuccess(h.returned) THEN 1 ELSE 0)
                  expected_exports ==
                      IF export_type \in {"daily", "hourly"} THEN 1 ELSE 2
              IN  /\ daily' = d
                  /\ hourly' = h
                  /\ weather' =
                        IF export_type = Raised
                        THEN [body |-> body, export_type |-> Raised,
                              daily |-> "not run", hourly |-> "not run",
                              status |-> 0, text |-> Raised]
                        ELSE [body |-> body, export_type |-> export_type,
                              daily |-> IF runDaily THEN d.returned ELSE "not run",
                              hourly |-> IF runHourly THEN h.returned ELSE "not run",
                              status |-> IF success_count = expected_exports
                                         THEN 200 ELSE 500,
                              text |-> IF success_count = expected_exports
                                       THEN "SUCCESS" ELSE "PARTIAL_SUCCESS"]
        /\ UNCHANGED <<cacheVars, engineVars, ingestVars, proxy, conn, down,
                       legacy, notify, monitor, stream>>

\* request.data: empty, bytes that are no UTF-8, text that is no JSON, a JSON
\* value that is no object (an array, a number, null), or an object with or
\* without the key export_type.  The weather loaders add rows to the tables.
NextWeather ==
    \/ \E row \in [date : {1}, sensor_set_id : {"set-1"}] : DailyLoad(row)
    \/ \E row \in [time : {3600 * TicksPerSecond}, sensor_set_id : DailySets] :
          HourlyLoad(row)
    \/ \E body \in {[kind |-> k, export_type |-> None] :
                        k \in {"empty", "not-utf8", "not-json", "not-object"}}
                   \cup {[kind |-> "object", export_type |-> t] :
                           t \in {None, "both", "daily", "hourly", "weekly"}},
          dfault, hfault \in {"none", "query", "commit"}, k \in 0..1 :
          ExportWeatherToFirestore(body, dfault, hfault, k)


(***************************************************************************)
(* Combined consumer: process_sensor_data.  One delivery is one step: the  *)
(* decode, the Cassandra phase and the status phase.                       *)
(***************************************************************************)
\* The status strings of the readings, as the pieces the prefix tests tell
\* apart.  A reading's status value n >= 1 is the string Statuses[n]; the
\* value 0 is a JSON number, no string.
Statuses ==
    << <<"battery">>,
       <<"[boot]", " battery", " 3.9V">>,
       <<"[wake]", " battery">>,
       <<"[boot]", " v1.2">>,
       <<"[wake]", " timer">>,
       <<"battery", " low">>,
       <<"CRASH detected">> >>

\* str.startswith(prefix)
StartsWith(str, prefix) ==
    Len(prefix) <= Len(str) /\ SubSeq(str, 1, Len(prefix)) = prefix

\* process_status_messages(payload): the notifications sent, in order, each
\* with the index of its reading, and whether the function raised.  A status
\* that is no string has no startswith: the AttributeError leaves the loop.
ProcessStatusMessages(payload) ==
    LET status_readings ==
            SelectSeq([i \in 1..Len(payload) |-> i],
                      LAMBDA i : /\ payload[i].is_dict
                                 /\ payload[i].fields["status"].kind # "absent")
        Sent(status_message) ==
            IF \/ status_message = <<"battery">>
               \/ StartsWith(status_message, <<"[boot]", " battery">>)
               \/ StartsWith(status_message, <<"[wake]", " battery">>)
            THEN {"pushover_battery"}
            ELSE IF StartsWith(status_message, <<"[boot]">>)
            THEN {"email", "pushover_general"}
            ELSE {}
        after[n \in 0..Len(status_readings)] ==
            IF n = 0 THEN [log |-> <<>>, raised |-> FALSE]
            ELSE IF after[n - 1].raised THEN after[n - 1]
            ELSE LET status == payload[status_readings[n]].fields["status"]
                 IN  IF status.kind # "value" \/ status.v = 0
                     THEN [after[n - 1] EXCEPT !.raised = TRUE]
                     ELSE [after[n - 1] EXCEPT
                             !.log = Append(@, [reading |-> status_readings[n],
                                                sent |-> Sent(Statuses[status.v])])]
    IN  after[Len(status_readings)]

\* ProcessSensorData returning when the Cassandra phase raised, as the
\* handler of pubsub_to_cassandra does
ProcessSensorDataReturning(message, sessionFault, faults) ==
    /\ notify.handled + Len(AsList(message.payload)) <= MaxItems
    /\ DecodeError(message) = None
    /\ notify' = [handled |-> notify.handled + Len(AsList(message.payload)),
                  message |-> message, session |-> sessionFault,
                  result |-> "returned",
                  phases |-> IF sessionFault # "none" THEN <<"write failed">>
                             ELSE <<"write", "status">>,
                  error_count |-> 0,
                  sent |-> IF sessionFault # "none" THEN <<>>
                           ELSE ProcessStatusMessages(AsList(message.payload)).log,
                  status_raised |-> FALSE]
    /\ UNCHANGED <<cacheVars, ingestVars, engineVars, dailyVars, proxy, conn,
                   down, legacy, hourly, weather, monitor, stream>>

\* process_sensor_data(cloud_event).  phases lists what ran after the
\* decode: the Cassandra phase ("write", or "write failed" when the session
\* or the prepare raised) and the call of process_status_messages.
ProcessSensorData(message, sessionFault, faults) ==
    LET payload == AsList(message.payload)
        st == IF sessionFault # "none"
              THEN [raw |-> raw, cache |-> cache, now |-> now,
                    success_count |-> 0, error_count |-> 0, log |-> <<>>]
              ELSE ProcessReadings([raw |-> raw, cache |-> cache, now |-> now,
                                    success_count |-> 0, error_count |-> 0,
                                    log |-> <<>>], payload, faults, 1)
        phase1 == IF sessionFault # "none" THEN <<"write failed">> ELSE <<"write">>
        status == ProcessStatusMessages(payload)
    IN  /\ notify.handled + Len(payload) <= MaxItems
        /\ IF DecodeError(message) # None
           THEN /\ notify' = [handled |-> notify.handled + Len(payload),
                              message |-> message, session |-> "none",
                              result |-> IF DecodeError(message) \in
                                              {"KeyError", "TypeError", "JSONDecodeError"}
                                         THEN "returned" ELSE Raised,
                              phases |-> <<>>, error_count |-> 0,
                              sent |-> <<>>, status_raised |-> FALSE]
                /\ UNCHANGED <<raw, cache, now>>
           ELSE /\ notify' = [handled |-> notify.handled + Len(payload),
                              message |-> message, session |-> sessionFault,
                              result |-> "returned",
                              phases |-> phase1 \o <<"status">>,
                              error_count |-> st.error_count,
                              sent |-> status.log,
                              status_raised |-> status.raised]
                /\ raw' = st.raw
                /\ cache' = st.cache
                /\ now' = st.now
        /\ UNCHANGED <<call, delivery, engineVars, dailyVars, proxy, conn, down,
                       legacy, hourly, weather, monitor, stream>>

\* the readings of the bounded payloads: an item that is no dict, a reading
\* without status, and one for each value of the key status (null, a number,
\* each of the strings); the payloads of two readings are made of five of
\* them
NextNotify ==
    \/ \E message \in {[WellFormed(EmptyPayload) EXCEPT !.has_data = FALSE],
                        [WellFormed(EmptyPayload) EXCEPT !.padded = FALSE],
                        [WellFormed(EmptyPayload) EXCEPT !.json = FALSE]} :
          ProcessSensorData(message, "none", <<>>)
    \/ \E n \in 0..2 :
          \E items \in [1..n ->
                  {NonDict, Item("x", [instant |-> 1, offset |-> "Z"], OnlyLight)}
                  \cup {Item("x", [instant |-> 1, offset |-> "Z"],
                              [f \in TrackedFields |->
                                  IF f = "status" THEN v ELSE Absent]) :
                          v \in {Null} \cup {[kind |-> "value", v |-> k] :
                                               k \in 0..Len(Statuses)}}],
             sessionFault \in {"none", "connect", "prepare"},
             faults \in [1..n -> {"none", "raw"}] :
             /\ n = 2 => \A i \in 1..n :
                    items[i].fields["status"] \in
                        {Absent, Null, [kind |-> "value", v |-> 2],
                         [kind |-> "value", v |-> 4]}
             /\ \A i \in 1..n : ~Accepted(items[i]) \/ sessionFault # "none"
                                  => faults[i] = "none"
             /\ ProcessSensorData(WellFormed([is_list |-> TRUE, items |-> items]),
                                  sessionFault, faults)
    \/ \E v \in {4, 5} :
          ProcessSensorData(
              WellFormed([is_list |-> FALSE,
                          value |-> Item("x", [instant |-> 1, offset |-> "Z"],
                                         [f \in TrackedFields |->
                                             IF f = "status"
                                             THEN [kind |-> "value", v |-> v]
                                             ELSE Absent])]),
              "none", <<"none">>)

(***************************************************************************)
(* Status monitor: PendingStatusGroup and process_status_message.  A call  *)
(* is one step; the clock moves between calls.                             *)
(***************************************************************************)
MaxClock == 4          \* the clock runs from 0 to MaxClock * 150 seconds
TimeoutSeconds == 300  \* is_expired(timeout_seconds=300)

\* marker in status_message, a status message being the sequence of its
\* pieces: <<"CRASH detected", " (panic)">> is "CRASH detected (panic)"
Contains(status_message, marker) ==
    \E i \in 1..Len(status_message) : status_message[i] = marker

\* AddMessage completing a group only with all three messages
AddMessageComplete(group, status_message) ==
    IF Contains(status_message, "CRASH detected")
    THEN [group |-> [group EXCEPT !.crash_message = status_message],
          should_send |-> FALSE]
    ELSE IF Contains(status_message, "wifi connected")
    THEN [group |-> [group EXCEPT !.wifi_message = status_message],
          should_send |-> group.crash_message = <<>>]
    ELSE [group |-> [group EXCEPT !.ntp_message = status_message],
          should_send |-> group.crash_message = <<>> \/ group.wifi_message # <<>>]

\* AddMessage holding a wifi message that has no crash before it
AddMessageHolding(group, status_message) ==
    IF Contains(status_message, "CRASH detected")
    THEN [group |-> [group EXCEPT !.crash_message = status_message],
          should_send |-> FALSE]
    ELSE IF Contains(status_message, "wifi connected")
    THEN [group |-> [group EXCEPT !.wifi_message = status_message],
          should_send |-> FALSE]
    ELSE [group |-> [group EXCEPT !.ntp_message = status_message],
          should_send |-> TRUE]

\* PendingStatusGroup.add_message(status_message): the group afterwards and
\* whether it is to be sent.  A message that is not set is <<>>.
AddMessage(group, status_message) ==
    IF Contains(status_message, "CRASH detected")
    THEN [group |-> [group EXCEPT !.crash_message = status_message],
          should_send |-> FALSE]
    ELSE IF Contains(status_message, "wifi connected")
    THEN IF group.crash_message # <<>>
         THEN [group |-> [group EXCEPT !.wifi_message = status_message],
               should_send |-> FALSE]
         ELSE [group |-> group, should_send |-> TRUE]
    ELSE IF Contains(status_message, "ntp set")
    THEN IF group.crash_message # <<>>
         THEN [group |-> [group EXCEPT !.ntp_message = status_message],
               should_send |-> TRUE]
         ELSE [group |-> group, should_send |-> TRUE]
    ELSE [group |-> group, should_send |-> TRUE]

\* PendingStatusGroup.create_grouped_message(): the status texts of the
\* body.  Of an ntp message with something after "ntp set " the body keeps
\* the part from "ntp set " on.
CreateGroupedMessage(group) ==
    LET ntp == group.ntp_message
        at == CHOOSE i \in 1..Len(ntp) : ntp[i] = "ntp set"
    IN  (IF group.crash_message # <<>> THEN <<group.crash_message>> ELSE <<>>)
        \o (IF group.wifi_message # <<>> THEN <<group.wifi_message>> ELSE <<>>)
        \o (IF ntp = <<>> THEN <<>>
            ELSE IF Contains(ntp, "ntp set") /\ at < Len(ntp)
            THEN <<SubSeq(ntp, at, Len(ntp))>>
            ELSE <<ntp>>)

\* IsExpired from the timeout on
IsExpiredAtTimeout(group, current_time) ==
    current_time - group.creation_time >= TimeoutSeconds

\* PendingStatusGroup.is_expired(), current_time being time.time()
IsExpired(group, current_time) ==
    current_time - group.creation_time > TimeoutSeconds

\* process_status_message(sensor_id, sensor_set_id, status_message).  sent
\* and flushed hold the calls of send_email_notification and
\* send_pushover_notification; handed is history: the messages handed in
\* for the sensor since its previous notification.
ProcessStatusMessage(sensor_id, sensor_set_id, status_message) ==
    LET expired_sensors ==
            {sid \in DOMAIN monitor.pending :
                /\ monitor.pending[sid].exists
                /\ IsExpired(monitor.pending[sid], monitor.time)}
        NoGroup == [exists |-> FALSE, sensor_id |-> None, sensor_set_id |-> None,
                    crash_message |-> <<>>, wifi_message |-> <<>>,
                    ntp_message |-> <<>>, creation_time |-> 0]
        Send(sid, body, texts) ==
            {[channel |-> c, sensor_id |-> sid, body |-> body, handed |-> texts] :
                c \in {"email", "pushover"}}
        flushed == UNION {Send(sid, CreateGroupedMessage(monitor.pending[sid]),
                               monitor.handed[sid]) : sid \in expired_sensors}
        kept == [sid \in DOMAIN monitor.pending |->
                    IF sid \in expired_sensors THEN NoGroup ELSE monitor.pending[sid]]
        handed == [sid \in DOMAIN monitor.pending |->
                    IF sid \in expired_sensors THEN {} ELSE monitor.handed[sid]]
        should_group == \/ Contains(status_message, "CRASH detected")
                        \/ Contains(status_message, "wifi connected")
                        \/ Contains(status_message, "ntp set")
        group == IF kept[sensor_id].exists THEN kept[sensor_id]
                 ELSE [NoGroup EXCEPT !.exists = TRUE, !.sensor_id = sensor_id,
                                      !.sensor_set_id = sensor_set_id,
                                      !.creation_time = monitor.time]
        added == AddMessage(group, status_message)
        last == [sensor_id |-> sensor_id, status_message |-> status_message,
                 time |-> monitor.time, before |-> monitor.pending,
                 flushed |-> flushed, sent |-> {}, returned |-> "False"]
        notified(body) ==
            [monitor EXCEPT
                !.pending = [kept EXCEPT ![sensor_id] = NoGroup],
                !.handed = [handed EXCEPT ![sensor_id] = {}],
                !.last = [last EXCEPT
                            !.sent = Send(sensor_id, body,
                                          handed[sensor_id] \cup {status_message}),
                            !.returned = "True"]]
    IN  /\ monitor' =
             IF status_message = <<None>>
             THEN [monitor EXCEPT !.pending = kept, !.handed = handed,
                                  !.last = [last EXCEPT !.returned = Raised]]
             ELSE IF ~should_group THEN notified(<<status_message>>)
             ELSE IF added.should_send
             THEN notified(CreateGroupedMessage(added.group))
             ELSE [monitor EXCEPT
                     !.pending = [kept EXCEPT ![sensor_id] = added.group],
                     !.handed = [handed EXCEPT ![sensor_id] = @ \cup {status_message}],
                     !.last = last]
        /\ UNCHANGED <<cacheVars, engineVars, ingestVars, dailyVars, proxy, conn,
                       down, legacy, hourly, weather, notify, stream>>

\* time.time() moves on between two calls
MonitorTick ==
    /\ monitor.time < MaxClock * 150
    /\ monitor' = [monitor EXCEPT !.time = @ + 150]
    /\ UNCHANGED <<cacheVars, engineVars, ingestVars, dailyVars, proxy, conn,
                   down, legacy, hourly, weather, notify, stream>>

\* the status messages of the calls: <<None>> is a status that is no string
NextMonitor ==
    \/ MonitorTick
    \/ \E sensor_id \in {"x", "y"},
          status_message \in {<<"CRASH detected", " (panic)">>,
                              <<"CRASH detected", " (wdt)">>,
                              <<"wifi connected", " to (AP1)">>,
                              <<"ntp set", " 12:00">>,
                              <<"[boot] ", "ntp set", " 12:00">>,
                              <<"[boot]", " v1.2">>,
                              <<None>>} :
          /\ sensor_id = "y" => Contains(status_message, "CRASH detected")
          /\ ProcessStatusMessage(sensor_id, "set-1", status_message)


(***************************************************************************)
(* SSE endpoint: generate_sse_stream.  One stream; a step is what the      *)
(* generator does up to its next yield.  A dict of readings is the set of  *)
(* its values, one per sensor_id; None is a dict that is not present.      *)
(***************************************************************************)
POLL_INTERVAL_SECONDS == 60
CONNECTION_TIMEOUT_SECONDS == 300

\* HasDataChanged comparing the sensor ids only
HasDataChangedKeysOnly(old_data, new_data) ==
    \/ ~old_data.present \/ ~new_data.present
    \/ {r.sensor_id : r \in old_data.readings}
           # {r.sensor_id : r \in new_data.readings}

\* has_data_changed(old_data, new_data)
HasDataChanged(old_data, new_data) ==
    IF ~old_data.present \/ ~new_data.present THEN TRUE
    ELSE IF {r.sensor_id : r \in old_data.readings}
               # {r.sensor_id : r \in new_data.readings}
    THEN TRUE
    ELSE \E new \in new_data.readings :
            \E old \in old_data.readings :
               old.sensor_id = new.sensor_id /\ old.last_seen # new.last_seen

\* TimedOut with twice the timeout
TimedOutAfterTwice(elapsed) == elapsed > 2 * CONNECTION_TIMEOUT_SECONDS

\* time.time() - start_time > CONNECTION_TIMEOUT_SECONDS
TimedOut(elapsed) == elapsed > CONNECTION_TIMEOUT_SECONDS

\* the generator runs to its first yield: the 'connected' status event
Connected ==
    /\ stream.pc = "start"
    /\ stream' = [stream EXCEPT !.pc = "polling", !.events = <<"connected">>]
    /\ UNCHANGED <<cacheVars, engineVars, ingestVars, dailyVars, proxy, conn,
                   down, legacy, hourly, weather, notify, monitor>>

\* One iteration of `while True`, from the timeout test to the sleep.
\* current_data is what fetch_latest_readings returns, duration the time the
\* fetch took.  updated is history: the data of the last update event.
Poll(current_data, duration) ==
    /\ stream.pc = "polling"
    /\ LET event == IF ~current_data.present THEN "error"
                    ELSE IF HasDataChanged(stream.last_data, current_data)
                    THEN "update" ELSE "heartbeat"
       IN  stream' =
             IF TimedOut(stream.elapsed)
             THEN [stream EXCEPT !.pc = "done",
                                 !.events = Append(@, "timeout")]
             ELSE [stream EXCEPT
                     !.events = Append(@, event),
                     !.polls = @ + 1,
                     !.last_data = IF event = "update" THEN current_data ELSE @,
                     !.updated = IF event = "update" THEN current_data ELSE @,
                     !.elapsed = @ + POLL_INTERVAL_SECONDS + duration,
                     !.last = [at |-> stream.elapsed, event |-> event,
                               current_data |-> current_data,
                               updated |-> stream.updated,
                               before |-> stream.last_data]]
    /\ UNCHANGED <<cacheVars, engineVars, ingestVars, dailyVars, proxy, conn,
                   down, legacy, hourly, weather, notify, monitor>>

\* the readings the fetch may return: none, or sensor a with either of two
\* last_seen or another light_intensity, with sensor b or without; or None,
\* at once or after the 10 s of the request's timeout
NextStream ==
    \/ Connected
    \/ \E a \in {[sensor_id |-> "a", last_seen |-> 1, light_intensity |-> 5],
                   [sensor_id |-> "a", last_seen |-> 2, light_intensity |-> 5],
                   [sensor_id |-> "a", last_seen |-> 1, light_intensity |-> 6]},
          b \in SUBSET {[sensor_id |-> "b", last_seen |-> 1, light_intensity |-> 5]} :
          Poll([present |-> TRUE, readings |-> {a} \cup b], 0)
    \/ Poll([present |-> TRUE, readings |-> {}], 0)
    \/ \E duration \in {0, 10} : Poll([present |-> FALSE, readings |-> {}], duration)

InitAux ==
    /\ proxy = ([topic |-> <<>>, request |-> [env |-> EnvVars, auth |-> NoHeader, content_type |-> "text/plain", body |-> [kind |-> "none"]], status |-> 0, outcome |-> "none"])
    /\ conn = ([session |-> NoSession, constructed |-> 0, pc |-> [t \in Threads |-> "idle"], result |-> [t \in Threads |-> [outcome |-> NoReturn, session |-> NoSession]]])
    /\ down = NoDown
    /\ legacy = NoLegacy
    /\ hourly = NoHourly
    /\ weather = [body |-> [kind |-> "none", export_type |-> None],
                  export_type |-> None, daily |-> "not run", hourly |-> "not run",
                  status |-> 0, text |-> NoReturn]
    /\ notify = [handled |-> 0, message |-> WellFormed(EmptyPayload),
                 session |-> "none", result |-> NoReturn, phases |-> <<>>,
                 error_count |-> 0, sent |-> <<>>, status_raised |-> FALSE]
    /\ monitor =
         [pending |-> [sid \in {"x", "y"} |->
                          [exists |-> FALSE, sensor_id |-> None,
                           sensor_set_id |-> None, crash_message |-> <<>>,
                           wifi_message |-> <<>>, ntp_message |-> <<>>,
                           creation_time |-> 0]],
          handed |-> [sid \in {"x", "y"} |-> {}],
          time |-> 0,
          last |-> [sensor_id |-> None, status_message |-> <<>>, time |-> 0,
                    before |-> <<>>, flushed |-> {}, sent |-> {},
                    returned |-> NoReturn]]
    /\ stream = [pc |-> "start", events |-> <<>>, polls |-> 0, elapsed |-> 0,
                 last_data |-> [present |-> FALSE, readings |-> {}],
                 updated |-> [present |-> FALSE, readings |-> {}],
                 last |-> [at |-> 0, event |-> "none",
                           current_data |-> [present |-> FALSE, readings |-> {}],
                           updated |-> [present |-> FALSE, readings |-> {}],
                           before |-> [present |-> FALSE, readings |-> {}]]]

(***************************************************************************)
(* Initial state and specifications.                                       *)
(***************************************************************************)

InitCache ==
    /\ cache = [s \in SensorIds |-> EmptyRow]
    /\ now = 0
    /\ call = ([sensor_id |-> None, sensor_set_id |-> None, carried |-> {}, attempted |-> FALSE, executed |-> FALSE, repeat |-> FALSE, timestamp |-> <<>>, values |-> [f \in TrackedFields |-> <<>>], outcome |-> NoReturn])

InitIngest ==
    /\ raw = EmptyRaw
    /\ delivery = ([handled |-> 0, message |-> WellFormed(EmptyPayload), result |-> NoReturn, stage |-> "none", before |-> [raw |-> EmptyRaw, cache |-> [s \in SensorIds |-> EmptyRow], now |-> 0], success_count |-> 0, error_count |-> 0, log |-> <<>>])

Init ==
    /\ InitCache
    /\ InitIngest
    /\ (daily = NoDaily)
    /\ InitAux
    /\ source = {}
    /\ clock = 0
    /\ dest = EmptyDest
    /\ metadata = NoMetadata
    /\ pc = [r \in Runs |-> "idle"]
    /\ lastProcessed = [r \in Runs |-> EpochString]
    /\ rows = [r \in Runs |-> {}]
    /\ pending = [r \in Runs |-> {}]
    /\ hist = InitHist(FALSE, FALSE)

\* the same, with the history of reruns and crashes kept
InitRecovery ==
    /\ InitCache
    /\ InitIngest
    /\ (daily = NoDaily)
    /\ InitAux
    /\ source = {}
    /\ clock = 0
    /\ dest = EmptyDest
    /\ metadata = NoMetadata
    /\ pc = [r \in Runs |-> "idle"]
    /\ lastProcessed = [r \in Runs |-> EpochString]
    /\ rows = [r \in Runs |-> {}]
    /\ pending = [r \in Runs |-> {}]
    /\ hist = InitHist(TRUE, FALSE)

\* The first deployment on a source table that upstream merges have filled:
\* nothing exported yet, each of the two invocations happens once, and at
\* most one more upstream merge arrives meanwhile.
InitOverlap ==
    /\ InitCache
    /\ InitIngest
    /\ (daily = NoDaily)
    /\ InitAux
    /\ \E first \in MergeBatches, second \in MergeBatches \cup {{}} :
         /\ source = Merged(Merged({}, first, 1), second, 2)
         /\ clock = IF second = {} THEN 1 ELSE 2
    /\ dest = EmptyDest
    /\ metadata = NoMetadata
    /\ pc = [r \in Runs |-> "idle"]
    /\ lastProcessed = [r \in Runs |-> EpochString]
    /\ rows = [r \in Runs |-> {}]
    /\ pending = [r \in Runs |-> {}]
    /\ hist = InitHist(FALSE, TRUE)

NextOverlap ==
    \/ \E keys \in MergeBatches : hist.before = <<>> /\ UpstreamMerge(keys)
    \/ \E r \in Runs : ~hist.started[r] /\ ReadWatermark(r)
    \/ \E r \in Runs : QueryNewData(r)
    \/ \E r \in Runs : CommitBatch(r)
    \/ \E r \in Runs : AdvanceWatermark(r)

\* invocations that do not overlap: one starts when no other is running
NextSequential ==
    \/ \E keys \in MergeBatches : UpstreamMerge(keys)
    \/ \E r \in Runs : (\A o \in Runs : ~Active(o)) /\ ReadWatermark(r)
    \/ \E r \in Runs : QueryNewData(r)
    \/ \E r \in Runs : QueryFails(r)
    \/ \E r \in Runs : CommitBatch(r)
    \/ \E r \in Runs : CommitFails(r)
    \/ \E r \in Runs : Crash(r)
    \/ \E r \in Runs : AdvanceWatermark(r)

SpecCache == Init /\ [][NextCache]_vars

SpecEngine == Init /\ [][NextEngine]_vars

SpecRecovery == InitRecovery /\ [][NextSequential]_vars

SpecOverlap == InitOverlap /\ [][NextOverlap]_vars

\* The two exports share no state: one of them runs in a behaviour.
EngineUntouched ==
    /\ source = {} /\ clock = 0
    /\ \A r \in Runs : ~Active(r)
    /\ hist = InitHist(FALSE, FALSE)

NextExports ==
    \/ daily = NoDaily /\ NextEngine
    \/ EngineUntouched /\ NextDaily

SpecExports == Init /\ [][NextExports]_vars

SpecDaily == Init /\ [][NextDaily]_vars

SpecIngest == Init /\ [][NextIngest]_vars

SpecProxy == Init /\ [][NextProxy]_vars

SpecConn == Init /\ [][NextConn]_vars
SpecDown == Init /\ [][NextDown]_vars

SpecLegacy == Init /\ [][NextLegacy]_vars

SpecHourly == Init /\ [][NextHourly]_vars
SpecWeather == Init /\ [][NextWeather]_vars
SpecNotify == Init /\ [][NextNotify]_vars
SpecMonitor == Init /\ [][NextMonitor]_vars
\* the generator is driven until it ends
SpecStream == Init /\ [][NextStream]_vars /\ WF_vars(NextStream)

(***************************************************************************)
(* Properties of the latest-reading cache (SpecCache).                     *)
(***************************************************************************)

\* C1: a call of update_latest_reading whose reading carries no non-null
\* value for field F leaves F and F_timestamp of every row as they were (and
\* a call touches no row but its sensor's).
C1_UntouchedFieldsPreserved ==
    [][\A s \in SensorIds :
         /\ \A f \in TrackedFields :
              (f \notin call'.carried \/ s # call'.sensor_id)
                  => cache'[s].fld[f] = cache[s].fld[f]
         /\ s # call'.sensor_id => cache'[s] = cache[s]]_vars

\* {light_intensity = 5 @ 3, battery_percent = 0 @ 2} after an executed
\* update that carried light_intensity only
C1_Witness ==
    /\ call.executed
    /\ call.carried = {"light_intensity"}
    /\ cache["x"].fld["light_intensity"] = [val |-> <<5>>, ts |-> <<3>>]
    /\ cache["x"].fld["battery_percent"] = [val |-> <<0>>, ts |-> <<2>>]

\* C2: for every sensor and tracked field F, F_timestamp never decreases,
\* whatever the order in which the readings are delivered.
C2_FieldTimestampMonotone ==
    [][\A s \in SensorIds, f \in TrackedFields :
         cache[s].fld[f].ts # <<>>
             => /\ cache'[s].fld[f].ts # <<>>
                /\ cache'[s].fld[f].ts[1] >= cache[s].fld[f].ts[1]]_vars

(***************************************************************************)
(* Properties of the export engine.                                        *)
(***************************************************************************)
Watermark == ParseTimestamp(StoredWatermark(metadata))

\* no invocation is running and a new one would find no new rows
Quiescent ==
    /\ \A r \in Runs : ~Active(r)
    /\ Groups(source, Watermark) = {}

\* C3: the watermark document is written only by a run whose commit has
\* succeeded; a run that fails in the query or in the commit, or that ends
\* before its watermark write, leaves the stored watermark alone.
C3_WatermarkOnlyAfterCommit ==
    [][metadata' # metadata
         => \E r \in Runs : /\ pc[r] = "advance"
                            /\ rows[r] # {}
                            /\ pending[r] = {}
                            /\ pc'[r] = "idle"]_vars

\* a run committed documents and ended, and no watermark has been stored
C3_Witness ==
    /\ \A r \in Runs : ~Active(r)
    /\ \E id \in DocIds : dest[id] # <<>>
    /\ ~metadata.exists

\* C4: the watermark a successful run stores is the maximum last_updated of
\* the source rows it processed, and is not below the watermark it read.
C4_WatermarkIsMaxProcessed ==
    [][\A r \in Runs :
         AdvanceWatermark(r)
             => LET new == ParseTimestamp(StoredWatermark(metadata')) IN
                /\ metadata'.exists
                /\ new = SetMax({row.last_updated : row \in hist.sel[r]})
                /\ new >= ParseTimestamp(lastProcessed[r])]_vars

\* a run has stored a watermark with a fraction of a second, which is the
\* last_updated of the rows of the latest merge
C4_Witness ==
    /\ metadata.exists
    /\ metadata.last_processed_timestamp_utc.fraction # <<>>
    /\ Watermark = clock
    /\ source \subseteq hist.incorporated

\* C5: no source row is skipped: once no run is active and a new run would
\* find nothing, every source row has been part of a completed commit.
C5_NoRowSkipped == Quiescent => source \subseteq hist.incorporated

\* the source rows of sensor and bucket of a document
RowsOfDoc(id) ==
    {row \in source : <<row.sensor_id, Bucket(row.observation_minute)>> = id}

\* C6: once the engine has caught up and every source row has been part of a
\* completed commit, each document holds the mean (to the nearest integer) of
\* ALL source values of its sensor and bucket, whichever runs exported them,
\* and a bucket with no source row has no document.
C6_MeanOfAllRows ==
    (Quiescent /\ source \subseteq hist.incorporated)
        => \A id \in DocIds :
             IF RowsOfDoc(id) = {} THEN dest[id] = <<>>
             ELSE /\ dest[id] # <<>>
                  /\ dest[id][1].smoothed_light_intensity =
                         Round(SetSum(RowsOfDoc(id)), Cardinality(RowsOfDoc(id)))

\* C7: a second run from the same watermark on identical source data, started
\* on the destination the first run left, changes nothing in the destination.
C7_RerunChangesNothing ==
    [][\A r \in Runs : (hist.rerun[r] /\ pc[r] = "commit") => dest' = dest]_vars

\* what a run that nothing overlaps leaves of destination and watermark
RunOutcomes(st, src) ==
    {[dest |-> Applied(st.dest, result),
      wm |-> IF result = {} THEN st.wm
             ELSE ParseTimestamp(NewMetadata(result).last_processed_timestamp_utc)]
     : result \in QueryResults(src, st.wm)}

\* two runs one after the other from the first deployment, the first on
\* source table srcA and the second on srcB
TwoRuns(srcA, srcB) ==
    UNION {RunOutcomes(st, srcB) :
             st \in RunOutcomes([dest |-> EmptyDest,
                                 wm |-> ParseTimestamp(EpochString)], srcA)}

\* the destinations the sequential executions of the two runs and of the
\* upstream merge (if one arrived) leave
SequentialDests ==
    LET old == IF hist.before = <<>> THEN source ELSE hist.before[1] IN
    {st.dest : st \in TwoRuns(old, old) \cup TwoRuns(old, source)
                         \cup TwoRuns(source, source)}

\* C8: two runs that overlap leave the destination some sequential execution
\* of the two would have left.
C8_OverlapIsSerializable ==
    (\A r \in Runs : hist.started[r] /\ ~Active(r)) => dest \in SequentialDests

\* C9: the stored watermark never decreases.
C9_WatermarkNeverDecreases ==
    [][ParseTimestamp(StoredWatermark(metadata')) >= Watermark]_vars

\* C10: after a run that ended between its first write and the watermark
\* write, the watermark is the one it read, and when the next run has
\* committed on the same source data the destination is what an
\* uninterrupted run would have produced.
C10_RecoveryRestores ==
    \A r \in Runs :
        (pc[r] = "advance" /\ hist.recov[r])
            => /\ StoredWatermark(metadata) = hist.crash.wm
               /\ dest \in {Applied(hist.crash.base, batch) :
                              batch \in QueryResults(source,
                                                     ParseTimestamp(hist.crash.wm))}


\* C11: a run whose query returns no new rows (export_sensors_to_firestore,
\* export_daily_weather) writes no document, commits nothing, leaves the
\* watermark document alone, is idle again and reports success.
C11_NoDataTouchesNothing ==
    [][/\ \A r \in Runs :
            (/\ pc[r] = "query"
             /\ pc'[r] = "idle"
             /\ Groups(source, ParseTimestamp(lastProcessed[r])) = {}
             /\ QueryNewData(r))
                => /\ dest' = dest
                   /\ metadata' = metadata
                   /\ pending'[r] = {}
                   /\ pc'[r] = "idle"
                   /\ hist'.returned = "SUCCESS"
       /\ \A fault \in ({"none", "query", "commit", "killed"}) \ {"query"} :
            (/\ daily'.returned # NoReturn
             /\ DailyQuery(daily.source, DailyWatermark(daily.meta)) = {}
             /\ ExportDailyWeather(fault))
                => /\ daily'.dest = daily.dest
                   /\ daily'.meta = daily.meta
                   /\ daily'.returned = "SUCCESS: No new data."]_vars

\* a run has reported success and no watermark document exists: it found
\* the source table without rows
C11_Witness ==
    /\ hist.returned = "SUCCESS"
    /\ ~metadata.exists
    /\ source = {}
    /\ dest = EmptyDest
    /\ \A r \in Runs : ~Active(r)


\* C12: after an executed update for a sensor, every tracked field the
\* reading carries (present and non-null) has the reading's value with
\* field_timestamp = event timestamp, last_seen = ingestion time and
\* timestamp = event timestamp whatever fields are carried (also none), and
\* sensor_set_id is the reading's when the reading supplies one.
C12_UpdateEffect ==
    [][call'.executed /\ now' # now
         => LET row == cache'[call'.sensor_id] IN
            /\ row.exists
            /\ row.last_seen = <<now'>>
            /\ row.timestamp = call'.timestamp
            /\ \A f \in call'.carried :
                 /\ call'.values[f] # <<>>
                 /\ row.fld[f] = [val |-> call'.values[f], ts |-> call'.timestamp]
            /\ call'.sensor_set_id # None
                 => row.sensor_set_id = call'.sensor_set_id]_vars

\* an executed update that carried no field at all stamped the row at event
\* time 1 on the third call, over a battery_percent of 0 written at 2
C12_Witness ==
    /\ call.executed /\ call.carried = {}
    /\ cache["x"].last_seen = <<3>>
    /\ cache["x"].timestamp = <<1>>
    /\ cache["x"].fld["battery_percent"] = [val |-> <<0>>, ts |-> <<2>>]
    /\ cache["x"].sensor_set_id = "set-1"

\* C13: two updates of one sensor with the same event timestamp, executed one
\* after the other in either order (one UPDATE statement each, which the store
\* applies to the row as a whole): a field only the first carried keeps the
\* first's value and timestamp, a field the second carried (alone or as well)
\* has the second's value and timestamp, and a field neither carried is as it
\* was; value and timestamp of a field are always those of one update.
C13_SameTimestampUpdates ==
    [][(/\ call.executed /\ call'.executed /\ now' # now
        /\ call'.sensor_id = call.sensor_id
        /\ call'.timestamp = call.timestamp)
         => LET row == cache'[call'.sensor_id] IN
            \A f \in TrackedFields :
               /\ f \in call'.carried
                    => row.fld[f] = [val |-> call'.values[f], ts |-> call'.timestamp]
               /\ f \in call.carried \ call'.carried
                    => row.fld[f] = [val |-> call.values[f], ts |-> call.timestamp]
               /\ f \notin call.carried \cup call'.carried
                    => row.fld[f] = cache[call.sensor_id].fld[f]]_vars

\* two calls in all: the second carried battery_percent only, at event time 1,
\* beside the light_intensity the first call wrote at event time 1
C13_Witness ==
    /\ now = 2 /\ call.executed
    /\ call.carried = {"battery_percent"} /\ call.timestamp = <<1>>
    /\ cache["x"].fld["light_intensity"] = [val |-> <<5>>, ts |-> <<1>>]
    /\ cache["x"].fld["battery_percent"] = [val |-> <<0>>, ts |-> <<1>>]

\* C14 (as stated): when the reading the last call executed is delivered and
\* executed again, the row of the sensor is left exactly as it was.
C14_RedeliveryChangesNothing ==
    [][call'.repeat /\ now' # now => cache' = cache]_vars

\* C14 (amended): when the reading the last call executed is delivered and
\* executed again, every column of the row is left as it was except last_seen,
\* which takes the ingestion time of the second delivery, and no other row
\* changes.
C14_RedeliveryKeepsFields ==
    [][call'.repeat /\ now' # now
         => cache' = [cache EXCEPT ![call'.sensor_id].last_seen = <<now'>>]]_vars

\* the reading {light_intensity: 5, battery_percent: 0} of event time 2 was
\* executed at clock 1 and again at clock 2
C14_Witness ==
    /\ call.repeat /\ now = 2
    /\ call.carried = {"light_intensity", "battery_percent"}
    /\ cache["x"].last_seen = <<2>>
    /\ cache["x"].timestamp = <<2>>
    /\ cache["x"].fld["light_intensity"] = [val |-> <<5>>, ts |-> <<2>>]
    /\ cache["x"].fld["battery_percent"] = [val |-> <<0>>, ts |-> <<2>>]

\* C15: a call whose reading has no sensor_id fails with MissingKeyError, and
\* executes no statement and leaves every row of the cache as it was.
C15_MissingSensorIdFails ==
    [][(now' # now /\ call'.sensor_id = None)
         => /\ call'.outcome = "MissingKeyError"
            /\ ~call'.executed
            /\ cache' = cache]_vars

(***************************************************************************)
(* Properties of the Pub/Sub consumer (SpecIngest).                        *)
(***************************************************************************)
\* the elements of seq at the positions in keep, in order
RECURSIVE Keep(_, _, _)
Keep(seq, keep, i) ==
    IF i > Len(seq) THEN <<>>
    ELSE (IF i \in keep THEN <<seq[i]>> ELSE <<>>) \o Keep(seq, keep, i + 1)

\* the statement that raised for the item an entry of the log is about
FaultOf(entry) ==
    IF entry.raw = "failed" THEN "raw"
    ELSE IF entry.cache = "failed" THEN "cache" ELSE "none"

\* the last delivery reached the loop over the payload
InLoop(d) == d.stage = "loop"

\* C16: a cache update whose statement fails is not reported as a success:
\* no item of the last delivery is counted as processed with its cache
\* upsert failed.
C16_CacheFailureNotSuccess ==
    \A i \in DOMAIN delivery.log :
        delivery.log[i].cache = "failed" => delivery.log[i].result # "success"

\* C17: an item that is a dict without sensor_id or timestamp is skipped, with
\* no write to the raw table or the cache and no count, and the rest of the
\* batch is processed as if the item were not there: the loop covers the whole
\* payload, and stores, clock and counters end as they do for the payload
\* without such items.
C17_MissingFieldsSkipped ==
    InLoop(delivery)
        => LET payload == AsList(delivery.message.payload)
               log == delivery.log
               missing == {i \in DOMAIN payload :
                             payload[i].is_dict /\ MissingRequired(payload[i])}
               others == DOMAIN payload \ missing
           IN  /\ Len(log) = Len(payload)
               /\ \A i \in missing : log[i] = Outcome("skipped", "none", "none")
               /\ [raw |-> raw, cache |-> cache, now |-> now,
                   success_count |-> delivery.success_count,
                   error_count |-> delivery.error_count,
                   log |-> Keep(log, others, 1)]
                   = ProcessReadings(
                         [raw |-> delivery.before.raw,
                          cache |-> delivery.before.cache,
                          now |-> delivery.before.now,
                          success_count |-> 0, error_count |-> 0, log |-> <<>>],
                         Keep(payload, others, 1),
                         Keep([i \in DOMAIN log |-> FaultOf(log[i])], others, 1),
                         1)

\* a batch of three: a reading, an item without timestamp, a reading; both
\* readings are in the raw table and the second one is the cache's latest
C17_Witness ==
    /\ InLoop(delivery)
    /\ Len(delivery.log) = 3
    /\ delivery.message.payload.items[2] = Item("x", NoTimestamp, OnlyLight)
    /\ delivery.log[1].result = "success"
    /\ delivery.log[2].result = "skipped"
    /\ delivery.log[3].result = "success"
    /\ raw[<<"x", 1>>].exists /\ raw[<<"x", 2>>].exists
    /\ cache["x"].timestamp = <<2>>

\* the items of the payload the loop neither counts as a success nor as an
\* error: no dict, or a dict without sensor_id or timestamp
Skipped(payload) ==
    {i \in DOMAIN payload : ~payload[i].is_dict \/ MissingRequired(payload[i])}

\* C18: a failed write for one item does not end the batch: the loop covers
\* the whole payload, the raw insert is sent for every accepted item (also
\* after a failure), and success_count + error_count + skipped items is the
\* length of the batch.
C18_FailureDoesNotAbort ==
    InLoop(delivery)
        => LET payload == AsList(delivery.message.payload)
               log == delivery.log
           IN  /\ Len(log) = Len(payload)
               /\ \A i \in DOMAIN payload :
                    Accepted(payload[i]) => log[i].raw \in {"done", "failed"}
               /\ delivery.success_count + delivery.error_count
                    + Cardinality(Skipped(payload)) = Len(payload)
               /\ delivery.success_count
                    = Cardinality({i \in DOMAIN log : log[i].result = "success"})
               /\ delivery.error_count
                    = Cardinality({i \in DOMAIN log : log[i].result = "error"})

\* a batch of three: the raw insert of the first reading failed, the second
\* item is no dict, the third reading was written
C18_Witness ==
    /\ InLoop(delivery)
    /\ Len(delivery.log) = 3
    /\ delivery.log[1] = Outcome("error", "failed", "none")
    /\ delivery.log[2].result = "skipped"
    /\ delivery.log[3] = Outcome("success", "done", "done")
    /\ delivery.success_count = 1 /\ delivery.error_count = 1
    /\ ~raw[<<"x", 1>>].exists /\ raw[<<"x", 2>>].exists

\* C19: a message that cannot be decoded or parsed makes the handler return,
\* with no write to the raw table or the cache.
C19_UndecodableIsDropped ==
    [][(DecodeError(delivery'.message) # None /\ delivery' # delivery)
         => /\ delivery'.result = "returned"
            /\ raw' = raw /\ cache' = cache]_vars

\* C20: for every reading the loop accepts, one raw insert and one cache
\* upsert are sent, whether or not the other one failed.
C20_BothWritesAttempted ==
    InLoop(delivery)
        => \A i \in DOMAIN delivery.log :
              Accepted(AsList(delivery.message.payload)[i])
                 => /\ delivery.log[i].raw \in {"done", "failed"}
                    /\ delivery.log[i].cache \in {"done", "failed"}

\* C21: a row of the raw table, once written, keeps every column (also
\* ingestion_time) whatever is delivered later.
C21_RawRowsImmutable ==
    [][\A k \in (SensorIds \X (1..MaxEventTime)) : raw[k].exists => raw'[k] = raw[k]]_vars

C25_UnauthorizedNeverPublished ==
    [][(/\ proxy' # proxy
        /\ proxy'.request.env = EnvVars
        /\ proxy'.request.auth # ExpectedToken)
         => /\ proxy'.status = 401
            /\ proxy'.topic = proxy.topic]_vars

\* a well-formed json object sent with the token but without the scheme
C25_Witness ==
    /\ proxy.status = 401
    /\ proxy.request.auth = [scheme |-> "", token |-> "secret"]
    /\ proxy.request.content_type = "application/json"
    /\ proxy.request.body.kind = "dict"
    /\ proxy.topic = <<>>

\* the requests that pass every check: configured, token, content type, and a
\* body that is an object or a list with an item
Publishable(request) ==
    /\ request.env = EnvVars
    /\ request.auth = ExpectedToken
    /\ request.content_type = "application/json"
    /\ \/ request.body.kind = "dict"
       \/ request.body.kind = "list" /\ request.body.items # <<>>

\* the status the order of the checks gives a request that is not publishable
StatusInOrder(request) ==
    IF request.env # EnvVars THEN 500
    ELSE IF request.auth # ExpectedToken THEN 401
    ELSE 400

\* C26 (as stated): one message is published and 200 returned exactly for a publishable
\* request whose publish succeeds; every other request publishes nothing, with
\* 500, 401 or 400 in the order of the checks, and 500 for a failed publish.
C26_PublishIffValid ==
    [][proxy' # proxy
         => LET request == proxy'.request IN
            /\ proxy'.status = 200
                 <=> Publishable(request) /\ proxy'.outcome = "published"
            /\ IF proxy'.status = 200
               THEN /\ Len(proxy'.topic) = Len(proxy.topic) + 1
                    /\ proxy'.topic[Len(proxy'.topic)].payload.is_list
               ELSE /\ proxy'.topic = proxy.topic
                    /\ proxy'.status = IF Publishable(request) THEN 500
                                       ELSE StatusInOrder(request)]_vars

\* C26 (amended): as stated, except that a publish whose result does not
\* arrive within the timeout returns 500 and the message is published later
\* or not at all: with 500 for a publishable request the topic gains at most
\* that one message, and with any other status but 200 it gains nothing.
C26_PublishIffValidOrTimeout ==
    [][proxy' # proxy
         => LET request == proxy'.request
                message == WellFormed(AsBatch(request.body))
            IN
            /\ proxy'.status = 200
                 <=> Publishable(request) /\ proxy'.outcome = "published"
            /\ IF proxy'.status = 200
               THEN proxy'.topic = Append(proxy.topic, message)
               ELSE IF Publishable(request)
               THEN /\ proxy'.status = 500
                    /\ proxy'.outcome # "published"
                    /\ IF proxy'.outcome = "timeout_published"
                       THEN proxy'.topic = Append(proxy.topic, message)
                       ELSE proxy'.topic = proxy.topic
               ELSE /\ proxy'.topic = proxy.topic
                    /\ proxy'.status = StatusInOrder(request)]_vars

\* a publishable list of two items was answered 500 after the timeout, and is
\* in the topic
C26_Witness ==
    /\ proxy.status = 500
    /\ proxy.outcome = "timeout_published"
    /\ Len(proxy.topic) = 1
    /\ proxy.topic[1].payload = [is_list |-> TRUE, items |-> <<NonDict, AReading>>]

(***************************************************************************)
(* Properties of the Cassandra connection (SpecConn).                      *)
(***************************************************************************)
\* C27: at most one session is ever constructed, every call that returns a
\* session returns that one, and a failed construction leaves the global
\* unset.
C27_ConstructOnce ==
    /\ conn.constructed <= 1
    /\ \A t \in Threads :
         conn.result[t].outcome = "returned" => conn.result[t].session = 1
    /\ conn.constructed = 0 => conn.session = NoSession

(***************************************************************************)
(* Properties of the weather exports (SpecDaily, SpecHourly).              *)
(***************************************************************************)
\* C29: export_daily_weather never permanently skips a source row: a run
\* that returns after writing leaves in the destination every row with a
\* sensor_set_id whose date lies after the watermark it started from and not
\* after the watermark it leaves, the rows the filter
\* date > last_processed_date cannot select again.
C29_NoRowSkipped ==
    [][daily'.returned = "SUCCESS: Processed" =>
          \A row \in daily.source :
              /\ row.sensor_set_id # None
              /\ row.date > ParseDate(DailyWatermark(daily.meta))
              /\ row.date <= ParseDate(DailyWatermark(daily'.meta))
              => DailyDocId(row) \in daily'.dest]_vars

(***************************************************************************)
(* Properties of the downsample/merge engine (SpecDown).                   *)
(***************************************************************************)
\* C23: the merge is an upsert keyed by (sensor_id, observation_minute): the
\* table never holds two rows of one key, and after a run every bucket in
\* which the run had raw rows has exactly one row, written by that run,
\* whether or not the table had a row of that key before.
C23_MergeIsKeyedUpsert ==
    /\ \A a, b \in down.table :
          /\ a.sensor_id = b.sensor_id
          /\ a.observation_minute = b.observation_minute
          => a = b
    /\ down.last.ran =>
          \A r \in down.last.window :
              LET held == {t \in down.table :
                             /\ t.sensor_id = r.sensor_id
                             /\ t.observation_minute = Minute(r.timestamp)}
                  data == {x \in down.last.window :
                             /\ x.sensor_id = r.sensor_id
                             /\ Minute(x.timestamp) = Minute(r.timestamp)}
              IN  /\ Cardinality(held) = 1
                  /\ \A t \in held :
                        /\ t.last_updated = down.runs
                        /\ t.smoothed_light_intensity.count = Cardinality(data)
                        /\ \A x \in data :
                              (\A y \in data : y.light_intensity = x.light_intensity)
                              => t.smoothed_light_intensity.sum =
                                    x.light_intensity * Cardinality(data)

\* a run replaced 100 by 999 in the bucket of sensor-A that starts at 0
C23_Witness ==
    /\ down.last.ran
    /\ \E b \in down.last.before, t \in down.table :
          /\ b.sensor_id = "sensor-A" /\ t.sensor_id = "sensor-A"
          /\ b.observation_minute = 0 /\ t.observation_minute = 0
          /\ b.smoothed_light_intensity = [sum |-> 100, count |-> 1]
          /\ t.smoothed_light_intensity = [sum |-> 999, count |-> 1]
    /\ Cardinality({t \in down.table : t.sensor_id = "sensor-A"}) = 1

\* C24: the gap policy.  After a run with gap filling, a bucket without raw
\* rows that lies between two buckets in which the sensor has rows holds a
\* row, and where the run created it, it has the value of the most recent
\* earlier bucket in which the sensor has rows; every other bucket without
\* raw rows of the sensor is as it was before the run: nothing is filled
\* after the sensor's last observation, whatever other sensors have later,
\* and nothing at all without gap filling.
C24_BoundedGapFilling ==
    down.last.ran =>
        \A s \in {"sensor-A", "sensor-B"}, m \in {Minute(t) : t \in 0..MaxTick} :
            LET observed == {Minute(r.timestamp) :
                               r \in {x \in down.last.window : x.sensor_id = s}}
                Rows(T, at) == {t \in T : t.sensor_id = s /\ t.observation_minute = at}
            IN  m \notin observed =>
                  IF /\ down.last.gap_fill
                     /\ \E o \in observed : o < m
                     /\ \E o \in observed : o > m
                  THEN /\ Cardinality(Rows(down.table, m)) = 1
                       /\ IF Rows(down.last.before, m) # {}
                          THEN Rows(down.table, m) = Rows(down.last.before, m)
                          ELSE \A t \in Rows(down.table, m),
                                  p \in Rows(down.table,
                                             SetMax({o \in observed : o < m})) :
                                  t.smoothed_light_intensity = p.smoothed_light_intensity
                  ELSE Rows(down.table, m) = Rows(down.last.before, m)

\* sensor-A has rows in the first and the third bucket and its second bucket
\* was filled; sensor-B, last seen in the first bucket, has no later row
C24_Witness ==
    /\ down.last.ran /\ down.last.gap_fill
    /\ down.last.before = {}
    /\ {Minute(r.timestamp) : r \in {x \in down.last.window : x.sensor_id = "sensor-A"}}
          = {0, 2 * TicksPerMinute}
    /\ {Minute(r.timestamp) : r \in {x \in down.last.window : x.sensor_id = "sensor-B"}}
          = {0}
    /\ \E t \in down.table :
          /\ t.sensor_id = "sensor-A" /\ t.observation_minute = TicksPerMinute
          /\ t.smoothed_light_intensity.count = 1
    /\ Cardinality({t \in down.table : t.sensor_id = "sensor-B"}) = 1

\* C30: export_hourly_weather commits its documents in batches of at most
\* HourlyBatch, all but the last full, and writes the watermark only after
\* the last commit: when a commit raises, the documents of the earlier batches
\* are in the collection, the metadata document is as it was, and the query
\* of the next run returns the same rows; after a run that wrote rows and
\* returned, all of them are in the collection and the watermark is the
\* largest time among them.
C30_WatermarkAfterAllBatches ==
    LET L == hourly.last
        written == SelectSeq(L.selected, LAMBDA row : row.sensor_set_id # None)
        Doc(row) == <<row.sensor_set_id, row.time>>
    IN  /\ \A i \in 1..Len(L.commits) :
              /\ Cardinality(L.commits[i]) <= HourlyBatch
              /\ i < Len(L.commits) => Cardinality(L.commits[i]) = HourlyBatch
              /\ \A row \in L.commits[i] : Doc(row) \in hourly.dest
        /\ L.failed > 0 =>
              /\ hourly.returned = Raised
              /\ Len(L.commits) = L.failed - 1
              /\ \A i \in 1..Len(L.commits) : Cardinality(L.commits[i]) = HourlyBatch
              /\ hourly.meta = L.before
              /\ HourlyQuery(hourly.source, hourly.meta.last_processed_timestamp)
                    = L.selected
        /\ hourly.returned = "SUCCESS: Processed" /\ written # <<>> =>
              /\ UNION {L.commits[i] : i \in 1..Len(L.commits)}
                    = {written[j] : j \in 1..Len(written)}
              /\ hourly.meta.exists
              /\ \E j \in 1..Len(written) :
                    ParseTimestamp(hourly.meta.last_processed_timestamp) = written[j].time
              /\ \A j \in 1..Len(written) :
                    written[j].time <= ParseTimestamp(hourly.meta.last_processed_timestamp)

\* the second commit of a run raised after a full first batch was committed
C30_Witness ==
    /\ hourly.last.failed = 2
    /\ Len(hourly.last.commits) = 1
    /\ Cardinality(hourly.last.commits[1]) = HourlyBatch
    /\ hourly.last.before.exists

(***************************************************************************)
(* Properties of the 15-minute export of bq_to_firebase (SpecLegacy).      *)
(***************************************************************************)
\* C28: a run of export_to_firestore that follows a successful run, the
\* source unchanged in between, finds no new rows and leaves every document
\* and the watermark as they were.
C28_LegacyQuiescence ==
    legacy.prev.valid /\ legacy.returned = "SUCCESS" =>
        /\ legacy.found = 0
        /\ legacy.dest = legacy.prev.dest
        /\ legacy.meta = legacy.prev.meta


(***************************************************************************)
(* Properties of the weather entry point (SpecWeather).                    *)
(***************************************************************************)
\* C31: a request runs the exports its export_type selects (both without a
\* body, without the key and when the body cannot be parsed), the hourly
\* export runs also when the daily export raised, and the answer is
\* 200 "SUCCESS" exactly when every export the request asked for succeeded,
\* and 500 "PARTIAL_SUCCESS" otherwise.
C31_ResponseIffAllSucceeded ==
    weather.body.kind # "none" =>
        LET ran == {e \in {"daily", "hourly"} : weather[e] # "not run"}
            asked == weather.body.export_type
        IN  /\ asked \in {None, "both"} /\ weather.body.kind # "not-object"
                => ran = {"daily", "hourly"}
            /\ asked = "daily" => ran = {"daily"}
            /\ asked = "hourly" => ran = {"hourly"}
            /\ weather.daily = Raised /\ asked \in {None, "both"}
                => "hourly" \in ran
            /\ IF \A e \in ran : HasSuccess(weather[e])
               THEN weather.status = 200 /\ weather.text = "SUCCESS"
               ELSE weather.status = 500 /\ weather.text = "PARTIAL_SUCCESS"


(***************************************************************************)
(* Properties of the combined consumer (SpecNotify).                       *)
(***************************************************************************)
\* C32: for every message that decodes, process_status_messages is called
\* exactly once, after the Cassandra phase, whether or not the session was
\* obtained and whether or not a write failed.
C32_StatusPhaseOnce ==
    notify.result # NoReturn /\ DecodeError(notify.message) = None =>
        /\ Len(notify.phases) = 2
        /\ notify.phases[1] \in {"write", "write failed"}
        /\ notify.phases[2] = "status"
        /\ notify.phases[1] = "write failed" <=> notify.session # "none"

\* C32: a delivery whose session could not be obtained, and one with a
\* failed write, still sent their notification
C32_Witness ==
    /\ notify.session = "connect" \/ notify.error_count > 0
    /\ notify.phases = <<IF notify.session = "connect" THEN "write failed"
                         ELSE "write", "status">>
    /\ notify.sent # <<>>

\* C33: each reading with a status key takes exactly one of three actions:
\* a battery status ("battery", "[boot] battery...", "[wake] battery...")
\* sends only the battery Pushover notification, any other "[boot]..."
\* status sends the email and the general Pushover notification, every other
\* status sends nothing; a reading without the key never sends anything.
C33_StatusRouting ==
    notify.phases # <<>> =>
        LET payload == AsList(notify.message.payload)
            Entries(i) == {j \in 1..Len(notify.sent) : notify.sent[j].reading = i}
            Notified(i) == UNION {notify.sent[j].sent : j \in Entries(i)}
            Text(i) == IF payload[i].fields["status"].kind = "value"
                          /\ payload[i].fields["status"].v > 0
                       THEN Statuses[payload[i].fields["status"].v] ELSE <<>>
        IN  \A i \in 1..Len(payload) :
               IF payload[i].is_dict /\ payload[i].fields["status"].kind # "absent"
               THEN /\ Cardinality(Entries(i)) <= 1
                    /\ Notified(i) =
                         IF Text(i) = <<"battery">>
                            \/ (Text(i) # <<>> /\ Text(i)[1] \in {"[boot]", "[wake]"}
                                /\ Len(Text(i)) > 1 /\ Text(i)[2] = " battery")
                         THEN {"pushover_battery"}
                         ELSE IF Text(i) # <<>> /\ Text(i)[1] = "[boot]"
                         THEN {"email", "pushover_general"}
                         ELSE {}
               ELSE Entries(i) = {}


(***************************************************************************)
(* Properties of the status monitor (SpecMonitor).  last is the last call  *)
(* of process_status_message; the group the call found for its sensor is   *)
(* the one stored before it, unless the call flushed it as expired.        *)
(***************************************************************************)
\* C34: for a sensor without a pending group a "CRASH detected" message
\* sends nothing and is held; a "wifi connected" after it sends nothing and
\* is held; the "ntp set" after that, or directly after the crash, sends
\* exactly one grouped notification (one email, one push) and removes the
\* sensor's group.
C34_RestartSequenceGrouped ==
    LET L == monitor.last
        sid == L.sensor_id
        found == L.before[sid].exists /\ ~IsExpired(L.before[sid], L.time)
        group == monitor.pending[sid]
    IN  L.returned \in {"True", "False"} =>
          /\ (Contains(L.status_message, "CRASH detected") /\ ~found)
              => /\ L.returned = "False" /\ L.sent = {}
                 /\ group.exists /\ group.crash_message = L.status_message
                 /\ group.wifi_message = <<>>
          /\ (/\ L.status_message = <<"wifi connected", " to (AP1)">>
              /\ found /\ L.before[sid].crash_message # <<>>)
              => /\ L.returned = "False" /\ L.sent = {}
                 /\ group.exists /\ group.wifi_message = L.status_message
                 /\ group.crash_message = L.before[sid].crash_message
          /\ (/\ L.status_message = <<"ntp set", " 12:00">>
              /\ found /\ L.before[sid].crash_message # <<>>)
              => /\ L.returned = "True"
                 /\ {n.channel : n \in L.sent} = {"email", "pushover"}
                 /\ Cardinality(L.sent) = 2
                 /\ \A n \in L.sent :
                        /\ n.sensor_id = sid
                        /\ n.body = <<L.before[sid].crash_message>>
                                    \o (IF L.before[sid].wifi_message = <<>> THEN <<>>
                                        ELSE <<L.before[sid].wifi_message>>)
                                    \o <<L.status_message>>
                 /\ ~group.exists

\* C34: the sequence crash, wifi, ntp has just been completed
C34_Witness ==
    /\ monitor.last.returned = "True"
    /\ monitor.last.status_message = <<"ntp set", " 12:00">>
    /\ monitor.last.before["x"].crash_message # <<>>
    /\ monitor.last.before["x"].wifi_message # <<>>
    /\ Cardinality(monitor.last.sent) = 2
    /\ ~monitor.pending["x"].exists

\* C35: the body of every notification holds the text of every status
\* message handed in for its sensor since the sensor's previous notification.
C35_NoMessageLost ==
    \A n \in monitor.last.flushed \cup monitor.last.sent :
        \A status_message \in n.handed :
            \E i \in 1..Len(n.body) : n.body[i] = status_message

C37_ExpiredGroupsFlushedFirst ==
    [][/\ monitor'.time # monitor.time
          => monitor'.pending = monitor.pending /\ monitor'.last = monitor.last
       /\ monitor'.time = monitor.time
          => LET L == monitor'.last
                 old == {sid \in DOMAIN monitor.pending :
                            /\ monitor.pending[sid].exists
                            /\ monitor.time - monitor.pending[sid].creation_time > 300}
             IN  /\ {n.sensor_id : n \in L.flushed} = old
                 /\ \A sid \in old :
                       {n.channel : n \in {f \in L.flushed : f.sensor_id = sid}}
                           = {"email", "pushover"}
                 /\ \A n \in L.flushed :
                       n.body = <<monitor.pending[n.sensor_id].crash_message>>
                                \o (IF monitor.pending[n.sensor_id].wifi_message = <<>>
                                    THEN <<>>
                                    ELSE <<monitor.pending[n.sensor_id].wifi_message>>)
                 /\ \A sid \in DOMAIN monitor.pending :
                       monitor'.pending[sid].exists
                           => /\ monitor.time - monitor'.pending[sid].creation_time <= 300
                              /\ sid \in old
                                   => /\ monitor'.pending[sid].creation_time = monitor.time
                                      /\ monitor'.pending[sid].wifi_message = <<>>]_vars

\* C37: a crash message arrived for a sensor whose group had expired: the
\* old group was sent and a new one holds the message
C37_Witness ==
    /\ monitor.last.returned = "False"
    /\ \E n \in monitor.last.flushed : n.sensor_id = monitor.last.sensor_id
    /\ monitor.pending[monitor.last.sensor_id].exists
    /\ monitor.pending[monitor.last.sensor_id].creation_time = monitor.last.time
    /\ \E n \in monitor.last.flushed : n.sensor_id # monitor.last.sensor_id


(***************************************************************************)
(* Properties of the SSE stream (SpecStream).                              *)
(***************************************************************************)
\* C38: the first event is the 'connected' status event; every iteration
\* of the loop that starts within the connection timeout emits exactly one
\* event, an update, a heartbeat or an error; the first iteration that
\* starts after the timeout emits the 'timeout' status event, which is the
\* last event of the stream; and every stream ends.
C38_StreamOrderedAndEnds ==
    /\ [](/\ stream.pc # "start" => stream.events[1] = "connected"
          /\ Len(stream.events) =
                (IF stream.pc = "start" THEN 0 ELSE 1) + stream.polls
                + (IF stream.pc = "done" THEN 1 ELSE 0)
          /\ \A i \in 2..Len(stream.events) :
                IF stream.pc = "done" /\ i = Len(stream.events)
                THEN stream.events[i] = "timeout"
                ELSE stream.events[i] \in {"update", "heartbeat", "error"}
          /\ stream.polls > 0 => stream.last.at <= CONNECTION_TIMEOUT_SECONDS
          /\ stream.pc = "done" => stream.elapsed > CONNECTION_TIMEOUT_SECONDS
          /\ stream.pc = "polling" =>
                stream.elapsed <= CONNECTION_TIMEOUT_SECONDS + POLL_INTERVAL_SECONDS + 10)
    /\ <>(stream.pc = "done")

\* C38: a stream that ended after six polls, one of them failed
C38_Witness ==
    /\ stream.pc = "done"
    /\ stream.polls = 6
    /\ \E i \in 1..Len(stream.events) : stream.events[i] = "error"
    /\ stream.events[Len(stream.events)] = "timeout"

\* C39: a poll emits an update exactly when the fetch succeeded and the data
\* differ from the data of the last update of the stream (none at the start)
\* in the set of sensor ids or in some sensor's last_seen; the remembered data
\* are replaced only by an update, and a failed fetch emits an error and
\* keeps them.
C39_UpdateIffChanged ==
    stream.polls > 0 =>
        LET L == stream.last
            Ids(data) == {r.sensor_id : r \in data.readings}
            LastSeen(data) == {<<r.sensor_id, r.last_seen>> : r \in data.readings}
        IN  /\ L.event = "update" <=>
                  /\ L.current_data.present
                  /\ \/ ~L.updated.present
                     \/ Ids(L.updated) # Ids(L.current_data)
                     \/ LastSeen(L.updated) # LastSeen(L.current_data)
            /\ ~L.current_data.present => L.event = "error"
            /\ L.event = "error" => ~L.current_data.present
            /\ stream.last_data = IF L.event = "update" THEN L.current_data
                                  ELSE L.before
            /\ stream.last_data = stream.updated

\* C39: after a failed poll, a poll reports the change that happened since the
\* last update
C39_Witness ==
    /\ stream.polls > 2
    /\ stream.events[Len(stream.events) - 1] = "error"
    /\ stream.last.event = "update"
    /\ stream.last.before.present
    /\ stream.last.before.readings # stream.last.current_data.readings

====
